---- MODULE Spec2Model ----
(***************************************************************************)
(* Model of the DCAFlights dashboard's shared filter pipeline:             *)
(*   - src/data.py                         get_data (the canonical table)  *)
(*   - src/components/filter_component.py  component (filter defaults),    *)
(*                                         filter_data, display_count      *)
(*   - src/components/data_cards.py        update (summary cards)          *)
(*   - src/components/data_table.py        update (the grid)               *)
(*   - the six chart components            update                          *)
(*                                                                         *)
(* A table is a sequence of rows (records).  A filter value is a JSON      *)
(* value as Dash hands it to a callback: null, a number, a text or a list. *)
(* Texts that the code parses (distance bounds, date bounds) are sequences *)
(* of one-character strings, so that float() and pd.to_datetime() are      *)
(* modelled by what they do to the characters.                             *)
(***************************************************************************)
EXTENDS Integers, Sequences, FiniteSets, TLC

VARIABLES
    source,         \* the data file get_data reads
    table,          \* the canonical table get_data returns
    defaults,       \* the values the filter inputs are laid out with
    filters,        \* the current values of FILTER_CALLBACK_INPUTS
    filtered,       \* the frame filter_data produced for these inputs
    total_results,  \* output of display_count
    cards,          \* output of the data cards' update
    grid,           \* output of the data table's update
    graphs,         \* output of each chart's update
    controls,       \* the current values of the chart controls
    cycles,         \* the callback invocations in progress
    frames,         \* the local data frames of each invocation
    load_error      \* the exception get_data ended with, "" when it returned

vars ==
    <<source, table, defaults, filters, filtered, total_results, cards, grid,
      graphs, controls, cycles, frames, load_error>>

-----------------------------------------------------------------------------
(* Bounds of the model *)

\* The number of callback invocations that run at the same time.
MaxCycles == 2

\* The number of airlines in the files the scatter chart is run on.
MaxAirlines == 11

\* The number of chart controls that are off their default at a time.
MaxControls == 2

\* longest canonical table explored
MaxRows == 2

\* The number of rows by which the frames of the large file exceed, and fall
\* short of, the most rows the data table shows.
MaxBeyond == 30

\* most filter inputs that differ from their page-load default at one time
MaxActive == 2

\* most filter inputs that differ from their default in the states whose
\* results are compared with the results of the filter sets next to them
MaxChanged == 1

\* most records of a data file handed to the loader on its own
MaxFileRows == 2

-----------------------------------------------------------------------------
(* Values *)

\* A nullable cell: pd.NA / NaT when na is TRUE.
NA == [na |-> TRUE, v |-> 0]
Val(n) == [na |-> FALSE, v |-> n]

\* JSON values of the callback inputs; one record shape for all kinds.
Null == [k |-> "null", n |-> 0, s |-> <<>>, items |-> <<>>]
Absent == [k |-> "absent", n |-> 0, s |-> <<>>, items |-> <<>>]
Num(n) == [k |-> "num", n |-> n, s |-> <<>>, items |-> <<>>]
Text(s) == [k |-> "text", n |-> 0, s |-> s, items |-> <<>>]
List(items) == [k |-> "list", n |-> 0, s |-> <<>>, items |-> items]

\* Elements of a multi-select list, and cells of a categorical column, carry
\* their Python type: the integer 2022 and the string "2022" are different.
IntItem(n) == [t |-> "int", n |-> n, s |-> ""]
StrItem(s) == [t |-> "str", n |-> 0, s |-> s]
ALL == StrItem("all")

Contains(list, x) == \E i \in DOMAIN list : list[i] = x

-----------------------------------------------------------------------------
(* Texts and the conversions the code applies to them *)

DigitChars == <<"0", "1", "2", "3", "4", "5", "6", "7", "8", "9">>

IsDigit(c) == c \in {"0", "1", "2", "3", "4", "5", "6", "7", "8", "9"}

DigitVal(c) ==
    CASE c = "0" -> 0 [] c = "1" -> 1 [] c = "2" -> 2 [] c = "3" -> 3
      [] c = "4" -> 4 [] c = "5" -> 5 [] c = "6" -> 6 [] c = "7" -> 7
      [] c = "8" -> 8 [] c = "9" -> 9

DigitChar(n) == DigitChars[n + 1]

AllDigits(s) == Len(s) > 0 /\ \A i \in DOMAIN s : IsDigit(s[i])

\* The number a run of decimal digits s[i..j] writes.
RECURSIVE DigitsValue(_, _, _)
DigitsValue(s, i, j) ==
    IF j < i THEN 0
    ELSE 10 * DigitsValue(s, i, j - 1) + DigitVal(s[j])

DigitsAt(s, i, j) == i <= j /\ \A p \in i..j : IsDigit(s[p])

RECURSIVE Strip(_)
Strip(s) ==
    IF s = <<>> THEN s
    ELSE IF Head(s) = " " THEN Strip(Tail(s))
    ELSE IF s[Len(s)] = " " THEN Strip(SubSeq(s, 1, Len(s) - 1))
    ELSE s

\* Python's float() on a str, for the texts of this model: surrounding
\* blanks are stripped, an optional sign, then decimal digits, then an
\* optional fraction of zeros; anything else raises ValueError.
Unsigned(s) ==
    IF \E i \in DOMAIN s : s[i] = "."
    THEN LET dot == CHOOSE i \in DOMAIN s : s[i] = "."
             ip == SubSeq(s, 1, dot - 1)
             fp == SubSeq(s, dot + 1, Len(s))
         IN  IF AllDigits(ip) /\ \A i \in DOMAIN fp : fp[i] = "0"
             THEN [ok |-> TRUE, v |-> DigitsValue(ip, 1, Len(ip)), err |-> ""]
             ELSE [ok |-> FALSE, v |-> 0, err |-> "ValueError"]
    ELSE IF AllDigits(s)
         THEN [ok |-> TRUE, v |-> DigitsValue(s, 1, Len(s)), err |-> ""]
         ELSE [ok |-> FALSE, v |-> 0, err |-> "ValueError"]

ParseFloat(s) ==
    LET t == Strip(s)
    IN  IF t # <<>> /\ Head(t) = "-"
        THEN LET u == Unsigned(Tail(t)) IN [u EXCEPT !.v = 0 - u.v]
        ELSE IF t # <<>> /\ Head(t) = "+" THEN Unsigned(Tail(t))
        ELSE Unsigned(t)

\* Mutant: a bound that arrives as text is compared as it is; the comparison
\* of the Int64 column with a str raises TypeError.
CoerceFloat_text_as_is(x) ==
    CASE x.k = "num" -> [ok |-> TRUE, v |-> x.n, err |-> ""]
      [] x.k = "absent" -> [ok |-> FALSE, v |-> 0, err |-> "KeyError"]
      [] OTHER -> [ok |-> FALSE, v |-> 0, err |-> "TypeError"]

\* float(x) as filter_data calls it on a distance bound.
CoerceFloat(x) ==
    CASE x.k = "num" -> [ok |-> TRUE, v |-> x.n, err |-> ""]
      [] x.k = "text" -> ParseFloat(x.s)
      [] x.k = "absent" -> [ok |-> FALSE, v |-> 0, err |-> "KeyError"]
      [] OTHER -> [ok |-> FALSE, v |-> 0, err |-> "TypeError"]

\* A date is the integer yyyymmdd, so that integer order is calendar order.
DateOf(y, m, d) == y * 10000 + m * 100 + d

DaysIn(y, m) ==
    IF m \in {4, 6, 9, 11} THEN 30
    ELSE IF m = 2
         THEN (IF y % 4 = 0 /\ (y % 100 # 0 \/ y % 400 = 0) THEN 29 ELSE 28)
         ELSE 31

Midnight == <<"T", "0", "0", ":", "0", "0", ":", "0", "0">>

\* pd.to_datetime(text), for the texts of this model: the empty text is NaT,
\* "YYYY-MM-DD" with an optional midnight time is that calendar date, and
\* anything else raises ValueError.
ParseDate(s) ==
    IF s = <<>> THEN [ok |-> TRUE, nat |-> TRUE, d |-> 0]
    ELSE IF /\ Len(s) \in {10, 19}
            /\ DigitsAt(s, 1, 4) /\ s[5] = "-"
            /\ DigitsAt(s, 6, 7) /\ s[8] = "-"
            /\ DigitsAt(s, 9, 10)
            /\ (Len(s) = 19 => SubSeq(s, 11, 19) = Midnight)
         THEN LET y == DigitsValue(s, 1, 4)
                  m == DigitsValue(s, 6, 7)
                  d == DigitsValue(s, 9, 10)
              IN  IF y >= 1 /\ m \in 1..12 /\ d >= 1 /\ d <= DaysIn(y, m)
                  THEN [ok |-> TRUE, nat |-> FALSE, d |-> DateOf(y, m, d)]
                  ELSE [ok |-> FALSE, nat |-> FALSE, d |-> 0]
         ELSE [ok |-> FALSE, nat |-> FALSE, d |-> 0]

\* pd.to_datetime(x) on a date bound that is not None.
ToDatetime(x) ==
    CASE x.k = "text" -> ParseDate(x.s)
      [] x.k = "num" -> [ok |-> TRUE, nat |-> FALSE, d |-> DateOf(1970, 1, 1)]
      [] OTHER -> [ok |-> FALSE, nat |-> FALSE, d |-> 0]

TwoDigits(n) == <<DigitChar(n \div 10), DigitChar(n % 10)>>

\* Timestamp.isoformat(), the text the date picker is initialised with.
IsoFormat(d) ==
    LET y == d \div 10000
    IN  <<DigitChar(y \div 1000), DigitChar((y \div 100) % 10),
          DigitChar((y \div 10) % 10), DigitChar(y % 10), "-">>
        \o TwoDigits((d \div 100) % 100) \o <<"-">> \o TwoDigits(d % 100)
        \o Midnight

\* datetime.fromisoformat(x), the second parse attempt of a date bound.
FromIsoformat(x) ==
    IF x.k = "text" /\ x.s # <<>> THEN ParseDate(x.s)
    ELSE [ok |-> FALSE, nat |-> FALSE, d |-> 0]

-----------------------------------------------------------------------------
(* The canonical table *)

\* The columns read as str or Int64 that the model cannot hold as a nullable
\* cell; a record lists in `missing` those of them it has no value for.
CategoricalColumns ==
    {"year", "airline_name", "dest", "month_name", "month", "day_of_week",
     "time_period", "delay_category"}

\* The text "YYYY-MM-DD" a data file holds for a day (data.py: "2022-03-22").
DateText(y, m, d) == SubSeq(IsoFormat(DateOf(y, m, d)), 1, 10)

\* One flight record, with the columns the filter pipeline and the cards read.
\* In a record of a data file the date cell holds the text of the date; in a
\* row of the loaded table it holds the day.
Row(y, a, de, mn, m, dw, tp, dc, dist, dt, ot) ==
    [year |-> y, airline_name |-> a, dest |-> de, month_name |-> mn,
     month |-> m, day_of_week |-> dw, time_period |-> tp,
     delay_category |-> dc, distance |-> dist, date |-> dt, on_time |-> ot,
     missing |-> {}]

\* The record with its dep_delay_flag and arr_delay_flag cells.
Flags(r, dep, arr) == r @@ [dep_delay_flag |-> dep, arr_delay_flag |-> arr]

\* The record with its dep_delay and arr_delay cells (minutes, Int64).
Delays(r, dep, arr) == r @@ [dep_delay |-> dep, arr_delay |-> arr]

\* The records of the sample data file.  They cover both values of every
\* categorical column, rows that differ in some categorical columns only, a
\* month name that disagrees with the month number, a missing distance, a
\* missing date, missing flags and delays, a missing departure delay, and an
\* arrival delay of more than two hours.
SampleFile ==
    << Delays(Flags(Row(2022, "A", "ATL", "Jan", 1, "Mon", "Morning", "Early/On-Time",
                        Val(500), Val(DateText(2022, 1, 1)), Val(1)), Val(0), Val(0)),
              Val(0 - 2), Val(0 - 5)),
       Delays(Flags(Row(2023, "B", "BOS", "Feb", 2, "Tue", "Evening", "Delayed",
                        Val(1500), Val(DateText(2023, 2, 15)), Val(0)), Val(1), Val(1)),
              Val(30), Val(45)),
       Delays(Flags(Row(2023, "A", "BOS", "Feb", 2, "Mon", "Evening", "Early/On-Time",
                        NA, Val(DateText(2023, 2, 15)), Val(0)), Val(0), Val(1)),
              Val(0), Val(20)),
       Delays(Flags(Row(2022, "A", "BOS", "Jan", 1, "Mon", "Evening", "Early/On-Time",
                        Val(1000), NA, NA), NA, NA),
              NA, NA),
       Delays(Flags(Row(2022, "B", "ATL", "January", 1, "Tue", "Morning", "Delayed",
                        Val(1000), Val(DateText(2022, 1, 31)), Val(1)), Val(1), Val(0)),
              NA, Val(130)) >>

\* The n records of the sample file that start at record i, wrapping around.
Slice(i, n) ==
    [j \in 1..n |-> SampleFile[((i + j - 2) % Len(SampleFile)) + 1]]

\* A data file: how it is stored and its records.  A parquet file either
\* restores pandas' nullable Int64 columns (written by pandas from such a
\* frame) or yields numpy columns, in which a missing integer is NaN.  "dat"
\* is delimited text stored under another extension (data/data.dat).
FileKinds == {"csv", "parquet_nullable", "parquet_numpy", "dat"}

\* The reader get_data picks from the extension of the path: read_parquet
\* for ".parquet", read_csv for every other path.
Reader(kind) ==
    IF kind \in {"parquet_nullable", "parquet_numpy"} THEN "read_parquet"
    ELSE "read_csv"

File(kind, records) == [kind |-> kind, records |-> records]

\* A Python bool in a nullable cell.
PyTrue == Val(1)
PyFalse == Val(0)

\* Mutant: the flag is read for its truth value (flag != 0).
FlagIsOne_truthy(kind, flag) ==
    IF flag.na THEN (IF kind = "parquet_numpy" THEN PyFalse ELSE NA)
    ELSE IF flag.v # 0 THEN PyTrue ELSE PyFalse

\* df[flag] == 1: on a nullable Int64 column a missing flag compares to
\* <NA>; on a numpy column NaN == 1 is False.
FlagIsOne(kind, flag) ==
    IF flag.na THEN (IF kind = "parquet_numpy" THEN PyFalse ELSE NA)
    ELSE IF flag.v = 1 THEN PyTrue ELSE PyFalse

\* The three boolean columns get_data adds to a record.
WithBools(kind, r) ==
    r @@ [dep_delay_flag_bool |-> FlagIsOne(kind, r.dep_delay_flag),
          arr_delay_flag_bool |-> FlagIsOne(kind, r.arr_delay_flag),
          on_time_bool |-> FlagIsOne(kind, r.on_time)]

NullableColumns ==
    {"distance", "date", "on_time", "dep_delay_flag", "arr_delay_flag",
     "dep_delay", "arr_delay",
     "dep_delay_flag_bool", "arr_delay_flag_bool", "on_time_bool"}

\* Every column of the row is null, as dropna(how='all') tests it.
AllNull(r) ==
    /\ r.missing = CategoricalColumns
    /\ \A col \in NullableColumns : r[col].na

\* pd.to_datetime(df['date'], format='%Y-%m-%d') on one cell of the column:
\* a missing cell becomes NaT, a text "YYYY-MM-DD" that names a calendar day
\* becomes that day, and any other text raises ValueError.
DateCell(cell) ==
    IF cell.na THEN [ok |-> TRUE, cell |-> NA]
    ELSE IF Len(cell.v) = 10 /\ ParseDate(cell.v).ok
         THEN [ok |-> TRUE, cell |-> Val(ParseDate(cell.v).d)]
         ELSE [ok |-> FALSE, cell |-> NA]

\* The exception a call of get_data ends with, "" when it returns: the
\* conversion of the date column raises for the column as a whole.  No
\* extension is refused.
get_data_error(file) ==
    IF \E i \in DOMAIN file.records : ~DateCell(file.records[i].date).ok
    THEN "ValueError"
    ELSE ""

\* get_data(data_path), when it returns: read the file, convert the date
\* column, add the boolean columns, then drop the rows in which every
\* column, the added ones included, is null.
get_data(file) ==
    LET dated == [i \in DOMAIN file.records |->
                     [file.records[i] EXCEPT !.date = DateCell(@).cell]]
        derived == [i \in DOMAIN dated |-> WithBools(file.kind, dated[i])]
        Kept(r) == ~AllNull(r)
    IN  IF get_data_error(file) # "" THEN <<>> ELSE SelectSeq(derived, Kept)

\* The data files the page is run on: data/data.csv holding a run of at most
\* MaxRows consecutive records of the sample file.
DataFiles == {File("csv", Slice(i, n)) : i \in DOMAIN SampleFile, n \in 0..MaxRows}

\* The tables get_data returns for them.
Tables == {get_data(f) : f \in DataFiles}

\* The multi-select filter keys in the order filter_data applies them, and
\* the column each one is matched against.
MultiKeys ==
    <<"year", "airline", "destination_airport", "month", "day_of_week",
      "time_period", "delay_category">>

\* Mutant: the airline and destination filters read each other's column.
ColumnOf_crossed(key) ==
    CASE key = "year" -> "year"
      [] key = "airline" -> "dest"
      [] key = "destination_airport" -> "airline_name"
      [] key = "month" -> "month_name"
      [] key = "day_of_week" -> "day_of_week"
      [] key = "time_period" -> "time_period"
      [] key = "delay_category" -> "delay_category"

ColumnOf(key) ==
    CASE key = "year" -> "year"
      [] key = "airline" -> "airline_name"
      [] key = "destination_airport" -> "dest"
      [] key = "month" -> "month_name"
      [] key = "day_of_week" -> "day_of_week"
      [] key = "time_period" -> "time_period"
      [] key = "delay_category" -> "delay_category"

\* The cell of a categorical column as a typed value: year is read as Int64,
\* the others as str (type_mapping of get_data).
Cell(r, col) ==
    IF col \in r.missing THEN [t |-> "na", n |-> 0, s |-> ""]
    ELSE IF col \in {"year", "month"} THEN IntItem(r[col])
    ELSE StrItem(r[col])

-----------------------------------------------------------------------------
(* filter_data *)

\* The running state of one filter_data call: the working frame df, or the
\* exception that ended the call, and the warnings logged so far.
Frame(rows) == [ok |-> TRUE, rows |-> rows, err |-> "", warnings |-> <<>>]

Raise(df, e) == [df EXCEPT !.ok = FALSE, !.rows = <<>>, !.err = e]

\* df = df[mask]: the rows whose mask entry is True, in their order.
Masked(df, rows) == [df EXCEPT !.rows = rows]

\* Series.isin(list): a cell matches an element of the same type and value.
IsIn(cell, items) == Contains(items, cell)

\* Mutant: the first matching row is lost (df[mask].iloc[1:]).
MultiSelectStep_drops_first(df, F, key) ==
    LET sel == F[key]
        Test(r) == IsIn(Cell(r, ColumnOf(key)), sel.items)
        kept == SelectSeq(df.rows, Test)
    IN  IF sel.k = "absent" THEN Raise(df, "KeyError")
        ELSE IF sel.k # "list" THEN Raise(df, "TypeError")
        ELSE IF Len(sel.items) > 0 /\ ~Contains(sel.items, ALL)
             THEN Masked(df, IF kept = <<>> THEN kept ELSE Tail(kept))
             ELSE df

\* Mutant: the sentinel counts only when it is the whole list
\* (filters[key] != ["all"]).
MultiSelectStep_all_alone(df, F, key) ==
    LET sel == F[key]
        Test(r) == IsIn(Cell(r, ColumnOf(key)), sel.items)
    IN  IF sel.k = "absent" THEN Raise(df, "KeyError")
        ELSE IF sel.k # "list" THEN Raise(df, "TypeError")
        ELSE IF Len(sel.items) > 0 /\ sel.items # <<ALL>>
             THEN Masked(df, SelectSeq(df.rows, Test))
             ELSE df

\* Mutant: the empty list is not skipped (no len(...) > 0 test).
MultiSelectStep_no_length_test(df, F, key) ==
    LET sel == F[key]
        Test(r) == IsIn(Cell(r, ColumnOf(key)), sel.items)
    IN  IF sel.k = "absent" THEN Raise(df, "KeyError")
        ELSE IF sel.k # "list" THEN Raise(df, "TypeError")
        ELSE IF ~Contains(sel.items, ALL)
             THEN Masked(df, SelectSeq(df.rows, Test))
             ELSE df

\* Mutant: the month filter maps the selected names to month numbers and
\* compares the numeric month column.
MultiSelectStep_month_number(df, F, key) ==
    LET sel == F[key]
        Number(item) == IF item = StrItem("Jan") THEN 1
                        ELSE IF item = StrItem("Feb") THEN 2 ELSE 0
        Test(r) ==
            IF key = "month"
            THEN \E i \in DOMAIN sel.items : Number(sel.items[i]) = r.month
            ELSE IsIn(Cell(r, ColumnOf(key)), sel.items)
    IN  IF sel.k = "absent" THEN Raise(df, "KeyError")
        ELSE IF sel.k # "list" THEN Raise(df, "TypeError")
        ELSE IF Len(sel.items) > 0 /\ ~Contains(sel.items, ALL)
             THEN Masked(df, SelectSeq(df.rows, Test))
             ELSE df

\* if len(filters[key]) > 0 and "all" not in filters[key]:
\*     df = df[df[column].isin(filters[key])]
MultiSelectStep(df, F, key) ==
    LET sel == F[key]
        Test(r) == IsIn(Cell(r, ColumnOf(key)), sel.items)
    IN  IF sel.k = "absent" THEN Raise(df, "KeyError")
        ELSE IF sel.k # "list" THEN Raise(df, "TypeError")
        ELSE IF Len(sel.items) > 0 /\ ~Contains(sel.items, ALL)
             THEN Masked(df, SelectSeq(df.rows, Test))
             ELSE df

\* Mutant: a lower bound that float() rejects is skipped, as an unparseable
\* date bound is.
DistanceMinStep_skips_uncoercible(df, F) ==
    LET lo == CoerceFloat(F["flight_distance_min"])
        Test(r) == ~r.distance.na /\ r.distance.v >= lo.v
    IN  IF lo.ok THEN Masked(df, SelectSeq(df.rows, Test)) ELSE df

\* Mutant: the rows that pass the lower bound come out last first
\* (a resort of the frame).
DistanceMinStep_last_first(df, F) ==
    LET lo == CoerceFloat(F["flight_distance_min"])
        Test(r) == ~r.distance.na /\ r.distance.v >= lo.v
        kept == SelectSeq(df.rows, Test)
    IN  IF lo.ok
        THEN Masked(df, [i \in DOMAIN kept |-> kept[Len(kept) + 1 - i]])
        ELSE Raise(df, lo.err)

\* Mutant: a lower bound above the upper bound is replaced by the upper
\* bound (the range is put in order before it is applied).
DistanceMinStep_orders_range(df, F) ==
    LET given == CoerceFloat(F["flight_distance_min"])
        hi == CoerceFloat(F["flight_distance_max"])
        lo == IF given.ok /\ hi.ok /\ hi.v < given.v THEN hi ELSE given
        Test(r) == ~r.distance.na /\ r.distance.v >= lo.v
    IN  IF lo.ok THEN Masked(df, SelectSeq(df.rows, Test)) ELSE Raise(df, lo.err)

\* df = df[df["distance"] >= float(filters["flight_distance_min"])]
\* A comparison with a missing distance is NA, and a NA mask entry drops the row.
DistanceMinStep(df, F) ==
    LET lo == CoerceFloat(F["flight_distance_min"])
        Test(r) == ~r.distance.na /\ r.distance.v >= lo.v
    IN  IF lo.ok THEN Masked(df, SelectSeq(df.rows, Test)) ELSE Raise(df, lo.err)

\* Mutant: the upper bound is exclusive (<).
DistanceMaxStep_exclusive(df, F) ==
    LET hi == CoerceFloat(F["flight_distance_max"])
        Test(r) == ~r.distance.na /\ r.distance.v < hi.v
    IN  IF hi.ok THEN Masked(df, SelectSeq(df.rows, Test)) ELSE Raise(df, hi.err)

\* Mutant: the upper bound is applied only while the frame holds more than
\* one row (if len(df) > 1).
DistanceMaxStep_skips_single_row(df, F) ==
    LET hi == CoerceFloat(F["flight_distance_max"])
        Test(r) == ~r.distance.na /\ r.distance.v <= hi.v
    IN  IF ~hi.ok THEN Raise(df, hi.err)
        ELSE IF Len(df.rows) > 1 THEN Masked(df, SelectSeq(df.rows, Test))
        ELSE df

\* df = df[df["distance"] <= float(filters["flight_distance_max"])]
DistanceMaxStep(df, F) ==
    LET hi == CoerceFloat(F["flight_distance_max"])
        Test(r) == ~r.distance.na /\ r.distance.v <= hi.v
    IN  IF hi.ok THEN Masked(df, SelectSeq(df.rows, Test)) ELSE Raise(df, hi.err)

\* The two parse attempts of a date bound; a comparison with NaT is False.
DateBound(x) ==
    LET first == ToDatetime(x)
    IN  IF first.ok THEN first ELSE FromIsoformat(x)

\* Mutant: a start bound that neither attempt can parse ends the call (no
\* second except clause).
DateStartStep_raises(df, F) ==
    LET x == F["date_start"]
        b == DateBound(x)
        Test(r) == ~r.date.na /\ ~b.nat /\ r.date.v >= b.d
    IN  IF x.k = "absent" THEN Raise(df, "KeyError")
        ELSE IF x.k = "null" THEN df
        ELSE IF b.ok THEN Masked(df, SelectSeq(df.rows, Test))
        ELSE Raise(df, "ValueError")

\* Mutant: the start bound keeps the rows that have no date.
DateStartStep_keeps_missing(df, F) ==
    LET x == F["date_start"]
        b == DateBound(x)
        Test(r) == r.date.na \/ (~b.nat /\ r.date.v >= b.d)
    IN  IF x.k = "absent" THEN Raise(df, "KeyError")
        ELSE IF x.k = "null" THEN df
        ELSE IF b.ok THEN Masked(df, SelectSeq(df.rows, Test))
        ELSE [df EXCEPT !.warnings = Append(@, "Could not parse start_date filter")]

\* The start of the date range: skipped for None, applied when one of the
\* two parse attempts succeeds, else logged and skipped.
DateStartStep(df, F) ==
    LET x == F["date_start"]
        b == DateBound(x)
        Test(r) == ~r.date.na /\ ~b.nat /\ r.date.v >= b.d
    IN  IF x.k = "absent" THEN Raise(df, "KeyError")
        ELSE IF x.k = "null" THEN df
        ELSE IF b.ok THEN Masked(df, SelectSeq(df.rows, Test))
        ELSE [df EXCEPT !.warnings = Append(@, "Could not parse start_date filter")]

DateEndStep(df, F) ==
    LET x == F["date_end"]
        b == DateBound(x)
        Test(r) == ~r.date.na /\ ~b.nat /\ r.date.v <= b.d
    IN  IF x.k = "absent" THEN Raise(df, "KeyError")
        ELSE IF x.k = "null" THEN df
        ELSE IF b.ok THEN Masked(df, SelectSeq(df.rows, Test))
        ELSE [df EXCEPT !.warnings = Append(@, "Could not parse end_date filter")]

\* One restriction of filter_data, by the filter key it reads; a call that
\* has raised applies nothing more.
Step(key, df, F) ==
    IF ~df.ok THEN df
    ELSE CASE key = "flight_distance_min" -> DistanceMinStep(df, F)
           [] key = "flight_distance_max" -> DistanceMaxStep(df, F)
           [] key = "date_start" -> DateStartStep(df, F)
           [] key = "date_end" -> DateEndStep(df, F)
           [] OTHER -> MultiSelectStep(df, F, key)

\* The order in which filter_data applies its restrictions.
CodeOrder ==
    MultiKeys \o <<"flight_distance_min", "flight_distance_max",
                   "date_start", "date_end">>

RECURSIVE ApplySteps(_, _, _)
ApplySteps(order, df, F) ==
    IF order = <<>> THEN df
    ELSE ApplySteps(Tail(order), Step(Head(order), df, F), F)

\* filter_data(df, **filters): the input frame is copied, never written.
filter_data(df, F) == ApplySteps(CodeOrder, Frame(df), F)

-----------------------------------------------------------------------------
(* The filter component's page-load defaults and the consumers *)

Present(df, col) == {df[i][col].v : i \in {j \in DOMAIN df : ~df[j][col].na}}

SetMin(S) == CHOOSE x \in S : \A y \in S : x <= y

SetMax(S) == CHOOSE x \in S : \A y \in S : x >= y

\* Series.min() / Series.max() skip missing values.
ColMin(df, col) == SetMin(Present(df, col))

ColMax(df, col) == SetMax(Present(df, col))

FilterKeys == {CodeOrder[i] : i \in DOMAIN CodeOrder}

\* component(): every dropdown starts at ["all"], the distance inputs at the
\* data's min and max, the date picker at the data's first and last date.
DefaultFilters(df) ==
    [key \in FilterKeys |->
        CASE key = "flight_distance_min" -> Num(ColMin(df, "distance"))
          [] key = "flight_distance_max" -> Num(ColMax(df, "distance"))
          [] key = "date_start" -> Text(IsoFormat(ColMin(df, "date")))
          [] key = "date_end" -> Text(IsoFormat(ColMax(df, "date")))
          [] OTHER -> List(<<ALL>>)]

\* filter_data(get_data(), **kwargs) as every callback calls it: an exception
\* of get_data leaves the expression like one of filter_data.
Filtered(file, F) ==
    IF get_data_error(file) # ""
    THEN [ok |-> FALSE, rows |-> <<>>, err |-> get_data_error(file),
          warnings |-> <<>>]
    ELSE filter_data(get_data(file), F)

\* Series.sum() of a nullable integer column skips missing values.
RECURSIVE ColSum(_, _)
ColSum(df, col) ==
    IF df = <<>> THEN 0
    ELSE IF Len(df) = 1 THEN (IF df[1][col].na THEN 0 ELSE df[1][col].v)
    ELSE LET half == Len(df) \div 2
         IN  ColSum(SubSeq(df, 1, half), col)
                 + ColSum(SubSeq(df, half + 1, Len(df)), col)

\* a / b rounded to the nearest integer, ties to even, as "%.1f" rounds.
RoundDiv(a, b) ==
    LET q == a \div b
        r == a % b
    IN  IF 2 * r > b \/ (2 * r = b /\ q % 2 = 1) THEN q + 1 ELSE q

\* display_count(**kwargs), given the frame its filter_data call produced: it
\* has no try/except, so an exception of filter_data leaves the callback.
display_count(df, filtered_df) ==
    IF filtered_df.ok
    THEN [raised |-> FALSE, filtered_count |-> Len(filtered_df.rows),
          count |-> Len(df)]
    ELSE [raised |-> TRUE, filtered_count |-> 0, count |-> 0]

\* The number of rows that have a value in the column (Series.count()).
ColCount(df, col) == Cardinality({i \in DOMAIN df : ~df[i][col].na})

\* Series.mean() in units of 1/scale: missing values are skipped, and the
\* mean of no value is missing (<NA> of an Int64 column, NaN of a numpy one).
ColMean(df, col, scale) ==
    IF ColCount(df, col) = 0 THEN NA
    ELSE Val(RoundDiv(ColSum(df, col) * scale, ColCount(df, col)))

\* Series.max(): missing values are skipped, the max of no value is missing.
ColMaxCell(df, col) ==
    IF ColCount(df, col) = 0 THEN NA ELSE Val(ColMax(df, col))

\* f"{x:.1f}" and f"{x:,.0f}" on an aggregate: <NA> of a nullable column
\* has no such format and raises TypeError; NaN of a numpy column is
\* written "nan".
FormatRaises(kind, x) == x.na /\ kind # "parquet_numpy"

\* update(**kwargs) of the data cards, given the kind of file get_data read
\* and the frame its filter_data call produced.  on_time_rate and avg_delay
\* are in tenths, the precision of the "%.1f" the cards show; avg_distance is
\* in whole miles.  Everything from the filter_data call to the formatted
\* texts is inside one try, whose handler shows "Error" on all five cards.
update(kind, filtered_df) ==
    LET df == filtered_df.rows
        n == Len(df)
        failed == [status |-> "Error", total_flights |-> 0, on_time_rate |-> 0,
                   avg_delay |-> NA, avg_distance |-> NA, max_delay |-> NA]
        avg_delay == ColMean(df, "arr_delay", 10)
        avg_distance == ColMean(df, "distance", 1)
    IN  IF ~filtered_df.ok THEN failed
        ELSE IF n = 0 THEN [failed EXCEPT !.status = "No Data"]
        ELSE IF FormatRaises(kind, avg_delay) \/ FormatRaises(kind, avg_distance)
        THEN failed
        ELSE [status |-> "ok", total_flights |-> n,
              on_time_rate |-> RoundDiv(ColSum(df, "on_time") * 1000, n),
              avg_delay |-> avg_delay, avg_distance |-> avg_distance,
              max_delay |-> ColMaxCell(df, "arr_delay")]

\* The most rows the data table hands to the grid (df.head(10_000)).
RowCap == 10000

\* f"{n:,}": the decimal digits of n >= 0 in groups of three, with commas.
RECURSIVE Commas(_)
Commas(n) ==
    IF n < 1000 THEN ToString(n)
    ELSE LET r == n % 1000
             pad == IF r < 10 THEN "00" ELSE IF r < 100 THEN "0" ELSE ""
         IN  Commas(n \div 1000) \o "," \o pad \o ToString(r)

\* df.head(n): the first n rows, or all of them when there are fewer.
HeadRows(df, n) == IF Len(df) <= n THEN df ELSE SubSeq(df, 1, n)

\* The title over the grid for a frame that had original_count rows, of
\* which shown are left after head().
TableTitle(original_count, shown) ==
    IF original_count > RowCap
    THEN "Showing 10,000 of " \o Commas(original_count)
             \o " rows (limited for performance)"
    ELSE "Showing " \o Commas(shown) \o " rows"

\* Mutant: the data table has no test for an empty frame and goes on to
\* build its columns and title.
data_table_update_no_empty_test(filtered_df) ==
    IF ~filtered_df.ok
    THEN [columnDefs |-> "none", rowData |-> <<>>, title |-> "Error loading data"]
    ELSE LET df == HeadRows(filtered_df.rows, RowCap)
         IN  [columnDefs |-> "columns", rowData |-> df,
              title |-> TableTitle(Len(filtered_df.rows), Len(df))]

\* Mutant: the data table hands every row of the frame to the grid.
data_table_update_no_head(filtered_df) ==
    IF ~filtered_df.ok
    THEN [columnDefs |-> "none", rowData |-> <<>>, title |-> "Error loading data"]
    ELSE IF Len(filtered_df.rows) = 0
    THEN [columnDefs |-> "none", rowData |-> <<>>,
          title |-> "No data available after filtering"]
    ELSE [columnDefs |-> "columns", rowData |-> filtered_df.rows,
          title |-> TableTitle(Len(filtered_df.rows), Len(filtered_df.rows))]

\* update(**kwargs) of the data table, given the frame its filter_data call
\* produced: ([], [], message) for an exception and for an empty frame, else
\* the column definitions, the first RowCap rows and the title.
data_table_update(filtered_df) ==
    IF ~filtered_df.ok
    THEN [columnDefs |-> "none", rowData |-> <<>>, title |-> "Error loading data"]
    ELSE IF Len(filtered_df.rows) = 0
    THEN [columnDefs |-> "none", rowData |-> <<>>,
          title |-> "No data available after filtering"]
    ELSE LET df == HeadRows(filtered_df.rows, RowCap)
         IN  [columnDefs |-> "columns", rowData |-> df,
              title |-> TableTitle(Len(filtered_df.rows), Len(df))]

\* The six chart components of the page.
Charts ==
    {"flight_connections_map", "airline_performance_horizontal_bar",
     "monthly_flight_trends_line_chart", "delay_by_weekday_bar_chart",
     "delay_distribution_box_plot", "Scatterchart_Showing"}

\* The keywords of the chart controls, as each chart's update reads them
\* from kwargs.  A list of which the code reads only the members (isin, in)
\* is a set.  The controls that change no number of the figure (the sort
\* order, the trend line, the plotted metric) are left out.
DelayCategories == {"Early/On-Time", "Slightly Late", "Delayed", "Severely Delayed"}

\* The values of a column that some row holds (Series.dropna().unique()).
Values(df, col) ==
    {df[i][col] : i \in {j \in DOMAIN df : col \notin df[j].missing}}

\* The rows of df whose cell in the column is v.
RowsOf(df, col, v) ==
    LET Test(r) == col \notin r.missing /\ r[col] = v
    IN  SelectSeq(df, Test)

\* The control values component() of each chart lays out for the table df.
DefaultControls(df) ==
    [Scatterchart_Showing_color |-> "none",
     airline_performance_horizontal_bar_delay_filter |-> DelayCategories,
     delay_by_weekday_bar_chart_delay_type |-> "dep_delay",
     delay_by_weekday_bar_chart_delayed_only |-> {},
     delay_distribution_box_plot_time_periods |-> Values(df, "time_period"),
     delay_distribution_box_plot_delay_range |-> <<0 - 30, 120>>,
     flight_connections_map_airline |-> "all",
     flight_connections_map_time_period |-> "all",
     monthly_flight_trends_line_chart_year_range |-> <<2019, 2024>>]

\* What a chart's update returns: the figure and the text of its error line.
\* empty_fig is the fallback figure titled "No data available"; the except
\* clause retitles it "Error in chart".  For a drawn figure, rows is the
\* number of rows it was drawn from and data the groups it shows.
EmptyFig(msg) ==
    [figure |-> "No data available", error |-> msg, rows |-> 0, data |-> {}]

ErrorFig ==
    [figure |-> "Error in chart", error |-> "Error updating chart", rows |-> 0,
     data |-> {}]

Fig(df, data) == [figure |-> "chart", error |-> "", rows |-> Len(df), data |-> data]

\* The outcomes of value_counts().head(9).index.tolist() on a column with
\* more than nine values: nine values, none with fewer rows than a value
\* left out.  Which of several values with the same number of rows come
\* first is not specified.
TopChoices(df, col) ==
    LET vals == Values(df, col)
        n == [v \in vals |-> Len(RowsOf(df, col, v))]
    IN  IF Cardinality(vals) <= 9 THEN {vals}
        ELSE {T \in SUBSET vals :
                 /\ Cardinality(T) = 9
                 /\ \A v \in T : \A w \in vals \ T : n[v] >= n[w]}

\* The rows the scatter chart plots: those with both delays present.
ScatterRows(df) ==
    LET Test(r) == ~r.dep_delay.na /\ ~r.arr_delay.na
    IN  SelectSeq(df, Test)

\* Mutant: the colour column is re-bucketed whenever it has more than nine
\* values.
ColourGroups_from_ten(df, col, top) ==
    LET vals == Values(df, col)
        Bucket(r) == IF col \notin r.missing /\ r[col] \in top THEN r[col] ELSE "Other"
        Labels == {Bucket(df[i]) : i \in DOMAIN df}
    IN  IF Cardinality(vals) > 9
        THEN {[colour |-> l,
               flights |-> Cardinality({i \in DOMAIN df : Bucket(df[i]) = l})]
              : l \in Labels}
        ELSE {[colour |-> v, flights |-> Len(RowsOf(df, col, v))] : v \in vals}

\* The colour groups of the scatter chart for a colour column, each with the
\* number of rows drawn in it.  With more than 10 values in the column, the
\* rows of a value in top are labelled with it and every other row, a row
\* without a value included, is labelled "Other" (color_column); with at most
\* 10 values the column itself is the label.
ColourGroups(df, col, top) ==
    LET vals == Values(df, col)
        Bucket(r) == IF col \notin r.missing /\ r[col] \in top THEN r[col] ELSE "Other"
        Labels == {Bucket(df[i]) : i \in DOMAIN df}
    IN  IF Cardinality(vals) > 10
        THEN {[colour |-> l,
               flights |-> Cardinality({i \in DOMAIN df : Bucket(df[i]) = l})]
              : l \in Labels}
        ELSE {[colour |-> v, flights |-> Len(RowsOf(df, col, v))] : v \in vals}

\* Scatterchart_Showing.update after its first empty test; top is the
\* outcome of head(9) on the plotted rows.
scatter_stage(df, K, top) ==
    LET valid == ScatterRows(df)
        color_by == K.Scatterchart_Showing_color
    IN  IF valid = <<>>
        THEN EmptyFig("No valid delay data available after filtering")
        ELSE IF color_by = "none" THEN Fig(valid, {})
        ELSE Fig(valid, ColourGroups(valid, color_by, top))

\* airline_stats of the airline chart: per airline the sum and the count of
\* the on_time values present and their ratio in tenths of a percent; the
\* ratio of an airline with no on_time value is 0 / 0, a missing number.
AirlineStats(df) ==
    {LET g == RowsOf(df, "airline_name", a)
     IN  [airline_name |-> a,
          on_time_flights |-> ColSum(g, "on_time"),
          total_flights |-> ColCount(g, "on_time"),
          on_time_pct |-> ColMean(g, "on_time", 1000)]
     : a \in Values(df, "airline_name")}

\* Mutant: the airline chart goes on to its aggregation without testing
\* whether the selected delay categories left a row; px.bar draws the empty
\* airline_stats.
airline_stage_no_empty_test(df, K) ==
    LET cats == K.airline_performance_horizontal_bar_delay_filter
        Test(r) == "delay_category" \notin r.missing /\ r.delay_category \in cats
        kept == IF cats # {} THEN SelectSeq(df, Test) ELSE df
    IN  Fig(kept, AirlineStats(kept))

\* airline_performance_horizontal_bar.update after its first empty test.
airline_stage(df, K) ==
    LET cats == K.airline_performance_horizontal_bar_delay_filter
        Test(r) == "delay_category" \notin r.missing /\ r.delay_category \in cats
        kept == IF cats # {} THEN SelectSeq(df, Test) ELSE df
    IN  IF kept = <<>>
        THEN EmptyFig("No data available for selected delay categories")
        ELSE Fig(kept, AirlineStats(kept))

\* delay_by_weekday_bar_chart.update after its first empty test: the mean of
\* the chosen delay per weekday, in tenths of a minute.
weekday_stage(df, K) ==
    LET delay_type == K.delay_by_weekday_bar_chart_delay_type
        tested == IF delay_type = "dep_delay" THEN "dep_delay" ELSE "arr_delay"
        Late(r) == ~r[tested].na /\ r[tested].v > 0
        delayed == IF "enabled" \in K.delay_by_weekday_bar_chart_delayed_only
                   THEN SelectSeq(df, Late) ELSE df
        Has(r) == ~r[delay_type].na
        valid == SelectSeq(delayed, Has)
    IN  IF delayed = <<>> THEN EmptyFig("No delayed flights found after filtering")
        ELSE IF valid = <<>> THEN EmptyFig("No valid delay data found")
        ELSE Fig(valid,
                 {[day_of_week |-> d,
                   avg_delay |-> ColMean(RowsOf(valid, "day_of_week", d), delay_type, 10)]
                  : d \in Values(valid, "day_of_week")})

\* delay_distribution_box_plot.update after its first empty test.
box_stage(df, K) ==
    LET selected_periods == K.delay_distribution_box_plot_time_periods
        delay_range == K.delay_distribution_box_plot_delay_range
        InPeriod(r) == "time_period" \notin r.missing /\ r.time_period \in selected_periods
        df_period == SelectSeq(df, InPeriod)
        InRange(r) == /\ ~r.arr_delay.na
                      /\ r.arr_delay.v >= delay_range[1]
                      /\ r.arr_delay.v <= delay_range[2]
        df_filtered == SelectSeq(df_period, InRange)
    IN  IF selected_periods = {} THEN EmptyFig("Please select at least one time period")
        ELSE IF df_period = <<>>
        THEN EmptyFig("No data available for selected time periods")
        ELSE IF df_filtered = <<>> THEN EmptyFig("No data available for delay range")
        ELSE Fig(df_filtered, {})

\* flight_connections_map.update after its first empty test: the number of
\* flights to each destination.
map_stage(df, K) ==
    LET selected_airline == K.flight_connections_map_airline
        selected_time_period == K.flight_connections_map_time_period
        ByAirline(r) == "airline_name" \notin r.missing /\ r.airline_name = selected_airline
        df1 == IF selected_airline # "all" THEN SelectSeq(df, ByAirline) ELSE df
        ByPeriod(r) == "time_period" \notin r.missing /\ r.time_period = selected_time_period
        df2 == IF selected_time_period # "all" THEN SelectSeq(df1, ByPeriod) ELSE df1
    IN  IF df2 = <<>> THEN EmptyFig("No flights found for the selected filters")
        ELSE Fig(df2, {[dest |-> d, flight_count |-> Len(RowsOf(df2, "dest", d))]
                       : d \in Values(df2, "dest")})

\* The rows the monthly chart keeps: those with a year in the year range.
YearRows(df, K) ==
    LET year_range == K.monthly_flight_trends_line_chart_year_range
        InYears(r) == /\ "year" \notin r.missing
                      /\ r.year >= year_range[1] /\ r.year <= year_range[2]
    IN  SelectSeq(df, InYears)

\* monthly_data of the monthly chart: per year and month the number of
\* flights, the mean departure delay in tenths of a minute and the mean of
\* on_time in tenths of a percent; both means skip missing values.
MonthlyData(df) ==
    LET Months == {<<df[i].year, df[i].month>> : i \in DOMAIN df}
        In(ym) == LET Test(r) == r.year = ym[1] /\ r.month = ym[2]
                  IN  SelectSeq(df, Test)
    IN  {[year_month |-> ym, flight_count |-> Len(In(ym)),
          avg_dep_delay |-> ColMean(In(ym), "dep_delay", 10),
          on_time_pct |-> ColMean(In(ym), "on_time", 1000)] : ym \in Months}

\* monthly_flight_trends_line_chart.update after its first empty test.  The
\* year and month columns are the Int64 columns read_csv gives; a row with no
\* month makes the text "2022-<NA>", which pd.to_datetime refuses.
monthly_stage(df, K) ==
    LET in_years == YearRows(df, K)
    IN  IF in_years = <<>> THEN EmptyFig("")
        ELSE IF \E i \in DOMAIN in_years :
                    "month" \in in_years[i].missing \/ in_years[i].month \notin 1..12
        THEN ErrorFig
        ELSE Fig(in_years, MonthlyData(in_years))

\* update(**kwargs) of a chart, given the frame its filter_data call
\* produced and the chart controls K.  All six begin alike: filter_data is
\* called inside try; an exception gives the fallback figure retitled
\* "Error in chart" with the error text; an empty frame gives the fallback
\* figure "No data available" with no text; any other frame goes through the
\* chart's own controls and aggregation, inside the same try.
chart_update(chart, filtered_df, K, top) ==
    LET df == filtered_df.rows
    IN  IF ~filtered_df.ok THEN ErrorFig
        ELSE IF Len(df) = 0 THEN EmptyFig("")
        ELSE CASE chart = "Scatterchart_Showing" -> scatter_stage(df, K, top)
               [] chart = "airline_performance_horizontal_bar" -> airline_stage(df, K)
               [] chart = "delay_by_weekday_bar_chart" -> weekday_stage(df, K)
               [] chart = "delay_distribution_box_plot" -> box_stage(df, K)
               [] chart = "flight_connections_map" -> map_stage(df, K)
               [] chart = "monthly_flight_trends_line_chart" -> monthly_stage(df, K)

\* The choices head(9) has on the rows the scatter chart plots for the
\* frame and the controls.
ScatterTops(filtered_df, K) ==
    IF K.Scatterchart_Showing_color = "none" THEN {{}}
    ELSE TopChoices(ScatterRows(filtered_df.rows), K.Scatterchart_Showing_color)

\* The six charts run on the frame and the controls.
Graphs(filtered_df, K) ==
    LET others == [chart \in Charts |-> chart_update(chart, filtered_df, K, {})]
    IN  {[others EXCEPT !["Scatterchart_Showing"] =
                            chart_update("Scatterchart_Showing", filtered_df, K, top)]
            : top \in ScatterTops(filtered_df, K)}

-----------------------------------------------------------------------------
(* Callback invocations *)

Cycles == 1..MaxCycles

\* An invocation that has not been called, and the local names df and
\* filtered_df of an invocation before they are bound.
Idle ==
    [pc |-> "idle", callback |-> "", kwargs |-> <<>>, out |-> <<>>]

NoLocals == [df |-> Frame(<<>>), filtered_df |-> Frame(<<>>)]

-----------------------------------------------------------------------------
(* Inputs *)

\* The two values each categorical column takes in SampleFile, as the
\* dropdown of that filter offers them.
OptionsOf(key) ==
    CASE key = "year" -> <<IntItem(2022), IntItem(2023)>>
      [] key = "airline" -> <<StrItem("A"), StrItem("B")>>
      [] key = "destination_airport" -> <<StrItem("ATL"), StrItem("BOS")>>
      [] key = "month" -> <<StrItem("Jan"), StrItem("Feb")>>
      [] key = "day_of_week" -> <<StrItem("Mon"), StrItem("Tue")>>
      [] key = "time_period" -> <<StrItem("Morning"), StrItem("Evening")>>
      [] key = "delay_category" -> <<StrItem("Early/On-Time"), StrItem("Delayed")>>

\* What a multi-select input can be set to: the empty list, the
\* sentinel alone, one option, the sentinel mixed with an option; for the
\* year also the year written as text.
Selections(key) ==
    LET o == OptionsOf(key)
    IN  {List(<<>>), List(<<ALL>>), List(<<o[1]>>), List(<<o[2]>>),
         List(<<o[1], ALL>>)}
        \cup (IF key = "year" THEN {List(<<StrItem("2022")>>)} ELSE {})

\* What a distance input can hold: the number it was initialised with or the
\* text the user typed.
DistanceInputs ==
    {Num(1000), Text(<<"1", "0", "0", "0">>), Text(<<"a", "b", "c">>)}

\* What a date bound can be: cleared, a picked day, or text that is no date.
DateInputs ==
    {Null, Text(<<"2", "0", "2", "2", "-", "0", "1", "-", "3", "1">>),
     Text(<<"s", "o", "o", "n">>)}

\* The filter inputs that are not at their page-load default.
Active(F) == {key \in FilterKeys : F[key] # defaults[key]}

-----------------------------------------------------------------------------
(* The state machine *)

TypeOK ==
    /\ table \in Tables
    /\ DOMAIN filters = FilterKeys
    /\ filtered.ok \in BOOLEAN
    /\ total_results.raised \in BOOLEAN
    /\ cards.status \in {"ok", "No Data", "Error"}

\* get_data() returned a table the filter component can take its defaults
\* from, the page was laid out and every callback has run once.
Init ==
    /\ source \in DataFiles
    /\ table = get_data(source)
    /\ Present(table, "distance") # {}
    /\ Present(table, "date") # {}
    /\ defaults = DefaultFilters(table)
    /\ filters = defaults
    /\ filtered = filter_data(table, filters)
    /\ total_results = display_count(table, filtered)
    /\ cards = update(source.kind, filtered)
    /\ grid = data_table_update(filtered)
    /\ controls = DefaultControls(table)
    /\ graphs \in Graphs(filtered, controls)
    /\ cycles = [c \in Cycles |-> Idle]
    /\ frames = [c \in Cycles |-> NoLocals]
    /\ load_error = get_data_error(source)

\* Mutant: filter_data narrows the frame it was handed in place
\* (df.drop(..., inplace=True) on the argument instead of on a copy).
InputAfter_in_place(df, F) == filter_data(df, F).rows

\* The caller's frame after filter_data(df, **F) has ended: the function
\* works on df.copy() and every later statement rebinds its local name to a
\* new frame, so the frame the caller passed is never written.
InputAfter(df, F) == df

\* The caller's keyword mapping after the call: **filters is read, never
\* assigned.
KwargsAfter(F) == F

\* The callbacks that take FILTER_CALLBACK_INPUTS run with the new inputs.
Recompute(F) ==
    /\ F # filters
    /\ Cardinality(Active(F)) <= MaxActive
    /\ filters' = KwargsAfter(F)
    /\ filtered' = filter_data(table, F)
    /\ table' = InputAfter(table, F)
    /\ total_results' = display_count(table, filtered')
    /\ cards' = update(source.kind, filtered')
    /\ grid' = data_table_update(filtered')
    /\ graphs' \in Graphs(filtered', controls)
    /\ UNCHANGED <<source, defaults, controls, cycles, frames, load_error>>

\* The values the filter inputs hold on the page.  A call that left a
\* keyword out, or passed None for it, was made with the page-load values.
PageInputs ==
    IF \E key \in FilterKeys : filters[key] = Absent THEN defaults
    ELSE IF \E i \in DOMAIN MultiKeys : filters[MultiKeys[i]] = Null THEN defaults
    ELSE IF filters["flight_distance_min"] = Null THEN defaults
    ELSE IF filters["flight_distance_max"] = Null THEN defaults
    ELSE filters

KeyIndex(key) == CHOOSE i \in DOMAIN CodeOrder : CodeOrder[i] = key

\* The callbacks read every input on every run, so neither the order in
\* which the inputs were set nor an earlier value of an input shows in the
\* state: the inputs are visited in the order the page lays them out, and
\* each is set once.
InLayoutOrder(key) ==
    \A other \in Active(PageInputs) : KeyIndex(other) < KeyIndex(key)

\* The user changes one of the seven dropdowns.
ChangeDropdown ==
    \E i \in DOMAIN MultiKeys : \E sel \in Selections(MultiKeys[i]) :
        /\ InLayoutOrder(MultiKeys[i])
        /\ Recompute([PageInputs EXCEPT ![MultiKeys[i]] = sel])

\* The user edits one of the two distance inputs.
ChangeDistance ==
    \E key \in {"flight_distance_min", "flight_distance_max"} :
        \E x \in DistanceInputs :
            /\ InLayoutOrder(key)
            /\ Recompute([PageInputs EXCEPT ![key] = x])

\* The user picks or clears one end of the date range.
ChangeDateRange ==
    \E key \in {"date_start", "date_end"} :
        \E x \in DateInputs :
            /\ InLayoutOrder(key)
            /\ Recompute([PageInputs EXCEPT ![key] = x])

\* filter_data is called with the page-load values but one keyword left out,
\* or passed as None.
OmitKey ==
    /\ filters = defaults
    /\ \E key \in FilterKeys : \E x \in {Absent, Null} :
           Recompute([defaults EXCEPT ![key] = x])

Next ==
    \/ ChangeDropdown
    \/ ChangeDistance
    \/ ChangeDateRange
    \/ OmitKey

Spec == Init /\ [][Next]_vars

\* The page alone: the inputs change only through the page's own controls,
\* which always pass every keyword to the callbacks.
NextPage ==
    \/ ChangeDropdown
    \/ ChangeDistance
    \/ ChangeDateRange

SpecPage == Init /\ [][NextPage]_vars

\* The same calls with fewer inputs off their default at a time.
NextNear == Next /\ Cardinality(Active(filters')) <= MaxChanged

SpecNear == Init /\ [][NextNear]_vars

-----------------------------------------------------------------------------
(* The chart controls *)

\* What each chart control can be set to: the options its component lays
\* out, a cleared list, and for the map an airline of the data.
ControlInputs ==
    [Scatterchart_Showing_color |-> {"none", "airline_name", "delay_category"},
     airline_performance_horizontal_bar_delay_filter |->
         {DelayCategories, {}, {"Delayed"}, {"Severely Delayed"}},
     delay_by_weekday_bar_chart_delay_type |-> {"dep_delay", "arr_delay"},
     delay_by_weekday_bar_chart_delayed_only |-> {{}, {"enabled"}},
     delay_distribution_box_plot_time_periods |-> {{}, {"Morning"}, {"Night"}},
     delay_distribution_box_plot_delay_range |-> {<<0 - 30, 120>>, <<60, 120>>},
     flight_connections_map_airline |-> {"all", "A", "B"},
     flight_connections_map_time_period |-> {"all", "Morning"},
     monthly_flight_trends_line_chart_year_range |->
         {<<2019, 2024>>, <<2020, 2023>>, <<2021, 2022>>}]

\* The chart controls that are not at their page-load value.
Touched(K) == {key \in DOMAIN K : K[key] # DefaultControls(table)[key]}

\* The user changes one chart control; the charts run with the new controls
\* and the unchanged filter inputs.
ChangeControl ==
    \E key \in DOMAIN ControlInputs : \E x \in ControlInputs[key] :
        LET K == [controls EXCEPT ![key] = x]
        IN  /\ x # controls[key]
            /\ Cardinality(Touched(K)) <= MaxControls
            /\ controls' = K
            /\ graphs' \in Graphs(filtered, K)
            /\ UNCHANGED <<source, table, defaults, filters, filtered,
                           total_results, cards, grid, cycles, frames, load_error>>

NextCharts == ChangeControl

SpecCharts == Init /\ [][NextCharts]_vars

-----------------------------------------------------------------------------
(* The loader on its own *)

\* A record with no value in any column (a line of separators only).
BlankRecord ==
    [Delays(Flags(Row(0, "", "", "", 0, "", "", "", NA, NA, NA), NA, NA), NA, NA)
        EXCEPT !.missing = CategoricalColumns]

\* Records with a value in one column only.
FlagOnlyRecord == [BlankRecord EXCEPT !.arr_delay_flag = Val(1)]

YearOnlyRecord ==
    [BlankRecord EXCEPT !.year = 2023, !.missing = CategoricalColumns \ {"year"}]

\* Records whose date text is no calendar day: the 30th of February, and a
\* day written with its time.
BadDayRecord ==
    [SampleFile[1] EXCEPT !.date = Val(SubSeq(IsoFormat(20220230), 1, 10))]

TimedDateRecord == [SampleFile[1] EXCEPT !.date = Val(IsoFormat(20220101))]

\* A record whose flags are neither 0 nor 1.
OddFlagsRecord ==
    [SampleFile[1] EXCEPT !.dep_delay_flag = Val(2),
                          !.arr_delay_flag = Val(0 - 1)]

LoaderRecords ==
    {SampleFile[i] : i \in DOMAIN SampleFile}
        \cup {BlankRecord, FlagOnlyRecord, YearOnlyRecord, OddFlagsRecord,
              BadDayRecord, TimedDateRecord}

\* A direct call of filter_data with every dimension open: "all" in every
\* list, the widest distance range, no date bound.
OpenFilters ==
    [key \in FilterKeys |->
        CASE key = "flight_distance_min" -> Num(0)
          [] key = "flight_distance_max" -> Num(2000)
          [] key \in {"date_start", "date_end"} -> Null
          [] OTHER -> List(<<ALL>>)]

\* The chart controls with every time period of the data selected.
OpenControls ==
    [DefaultControls(<<>>) EXCEPT
        !.delay_distribution_box_plot_time_periods =
            {"Early Morning", "Morning", "Afternoon", "Evening", "Night"}]

\* get_data is run on an empty csv file and its table is passed through
\* filter_data and the consumers with the open filters.
InitLoad ==
    /\ source = File("csv", <<>>)
    /\ load_error = get_data_error(source)
    /\ table = get_data(source)
    /\ defaults = OpenFilters
    /\ filters = OpenFilters
    /\ filtered = Filtered(source, filters)
    /\ total_results = display_count(table, filtered)
    /\ cards = update(source.kind, filtered)
    /\ grid = data_table_update(filtered)
    /\ controls = OpenControls
    /\ graphs \in Graphs(filtered, controls)
    /\ cycles = [c \in Cycles |-> Idle]
    /\ frames = [c \in Cycles |-> NoLocals]

\* The same calls on another data file.
LoadFile(file) ==
    /\ source' = file
    /\ load_error' = get_data_error(file)
    /\ table' = get_data(file)
    /\ filtered' = Filtered(file, filters)
    /\ total_results' = display_count(table', filtered')
    /\ cards' = update(source'.kind, filtered')
    /\ grid' = data_table_update(filtered')
    /\ graphs' \in Graphs(filtered', controls)
    /\ UNCHANGED <<defaults, filters, controls, cycles, frames>>

\* The file gets one more record.
AppendRecord ==
    /\ Len(source.records) < MaxFileRows
    /\ \E r \in LoaderRecords : LoadFile(File(source.kind, Append(source.records, r)))

\* The same records are stored as another kind of file.
ConvertFile ==
    \E kind \in FileKinds \ {source.kind} : LoadFile(File(kind, source.records))

NextLoad ==
    \/ AppendRecord
    \/ ConvertFile

SpecLoad == InitLoad /\ [][NextLoad]_vars

-----------------------------------------------------------------------------
(* Callback invocations that run at the same time *)

\* The callbacks whose invocations are followed step by step.
CycleCallbacks ==
    {"data_cards", "data_table", "display_count", "Scatterchart_Showing",
     "monthly_flight_trends_line_chart"}

\* The filter sets they are called with.
CycleFilters ==
    {OpenFilters, [OpenFilters EXCEPT !["year"] = List(<<IntItem(2022)>>)]}

\* Mutant: df is a module-level name, one for all invocations.
Slot_module_level(c) == 1

\* Where the local names of invocation c live: df and filtered_df are local
\* variables of the callback function, so each invocation has its own.
Slot(c) == c

\* The page is laid out on the first records of the sample file; no callback
\* is running.
InitCycles ==
    /\ source = File("csv", Slice(1, MaxRows))
    /\ load_error = get_data_error(source)
    /\ table = get_data(source)
    /\ defaults = OpenFilters
    /\ filters = OpenFilters
    /\ filtered = Filtered(source, filters)
    /\ total_results = display_count(table, filtered)
    /\ cards = update(source.kind, filtered)
    /\ grid = data_table_update(filtered)
    /\ controls = OpenControls
    /\ graphs \in Graphs(filtered, controls)
    /\ cycles = [c \in Cycles |-> Idle]
    /\ frames = [c \in Cycles |-> NoLocals]

\* What the page shows is not part of an invocation.
PageUnchanged ==
    UNCHANGED <<source, table, defaults, filters, filtered, total_results,
                cards, grid, graphs, controls, load_error>>

\* Dash calls a callback with a filter set; its local names are unbound.
Call(c) ==
    \E cb \in CycleCallbacks : \E F \in CycleFilters :
        /\ cycles[c].pc \in {"idle", "done"}
        /\ cycles' = [cycles EXCEPT ![c] =
                          [pc |-> "called", callback |-> cb, kwargs |-> F, out |-> <<>>]]
        /\ frames' = [frames EXCEPT ![Slot(c)] = NoLocals]
        /\ PageUnchanged

\* df = get_data(): a frame newly read from the file.
LoadStep(c) ==
    /\ cycles[c].pc = "called"
    /\ cycles' = [cycles EXCEPT ![c].pc = "loaded"]
    /\ frames' = [frames EXCEPT ![Slot(c)].df =
                      IF get_data_error(source) # ""
                      THEN Raise(Frame(<<>>), get_data_error(source))
                      ELSE Frame(get_data(source))]
    /\ PageUnchanged

\* filter_data(df, **kwargs): display_count binds the result to filtered_df,
\* the other callbacks rebind df.
FilterStep(c) ==
    LET mine == frames[Slot(c)]
        result == IF mine.df.ok THEN filter_data(mine.df.rows, cycles[c].kwargs)
                  ELSE mine.df
    IN  /\ cycles[c].pc = "loaded"
        /\ cycles' = [cycles EXCEPT ![c].pc = "filtered"]
        /\ frames' = [frames EXCEPT ![Slot(c)] =
                          IF cycles[c].callback = "display_count"
                          THEN [mine EXCEPT !.filtered_df = result]
                          ELSE [mine EXCEPT !.df = result]]
        /\ PageUnchanged

\* What the rest of the callback returns for its local frames.
Returns(cb, mine, K) ==
    CASE cb = "data_cards" -> {update(source.kind, mine.df)}
      [] cb = "data_table" -> {data_table_update(mine.df)}
      [] cb = "display_count" ->
             {IF mine.df.ok THEN display_count(mine.df.rows, mine.filtered_df)
              ELSE display_count(<<>>, mine.df)}
      [] OTHER -> {chart_update(cb, mine.df, K, top) : top \in ScatterTops(mine.df, K)}

\* The frame a chart leaves in df: the scatter chart rewrites the delay
\* columns and drops the rows without a delay, the monthly chart keeps the
\* rows of the year range and adds two columns; the other callbacks read df.
Working(cb, df, K) ==
    CASE cb = "Scatterchart_Showing" /\ df.ok -> Masked(df, ScatterRows(df.rows))
      [] cb = "monthly_flight_trends_line_chart" /\ df.ok -> Masked(df, YearRows(df.rows, K))
      [] OTHER -> df

\* The rest of the callback runs on its local frames and returns.
ReturnStep(c) ==
    LET mine == frames[Slot(c)]
    IN  /\ cycles[c].pc = "filtered"
        /\ \E out \in Returns(cycles[c].callback, mine, controls) :
               cycles' = [cycles EXCEPT ![c].pc = "done", ![c].out = out]
        /\ frames' = [frames EXCEPT ![Slot(c)].df =
                          Working(cycles[c].callback, mine.df, controls)]
        /\ PageUnchanged

NextCycles ==
    \E c \in Cycles :
        \/ Call(c)
        \/ LoadStep(c)
        \/ FilterStep(c)
        \/ ReturnStep(c)

SpecCycles == InitCycles /\ [][NextCycles]_vars

-----------------------------------------------------------------------------
(* The scatter chart on files with many airlines *)

AirlineNames ==
    <<"A", "B", "C", "D", "E", "F", "G", "H", "I", "J", "K", "L", "M", "N">>

\* The records of a file in which the i-th airline has shape[i] flights.
RECURSIVE FlightsOf(_)
FlightsOf(shape) ==
    IF shape = <<>> THEN <<>>
    ELSE LET k == Len(shape)
             flight == [SampleFile[2] EXCEPT !.airline_name = AirlineNames[k]]
         IN  FlightsOf(SubSeq(shape, 1, k - 1)) \o [i \in 1..shape[k] |-> flight]

\* The number of flights each airline has in the file, in the order of
\* AirlineNames.
ShapeOf(file) ==
    LET names == {file.records[i].airline_name : i \in DOMAIN file.records}
    IN  [k \in 1..Cardinality(names) |->
            Cardinality({i \in DOMAIN file.records :
                            file.records[i].airline_name = AirlineNames[k]})]

\* The files are listed once each: airlines are named in the order of
\* AirlineNames, each has one flight or two, and none has more flights than
\* the one before it.
Shapely(shape) ==
    /\ Len(shape) <= MaxAirlines
    /\ \A k \in DOMAIN shape : shape[k] \in {1, 2}
    /\ \A k \in DOMAIN shape : k > 1 => shape[k] <= shape[k - 1]

\* The scatter chart colours by airline; the file holds one flight.
InitScatter ==
    /\ source = File("csv", FlightsOf(<<1>>))
    /\ load_error = get_data_error(source)
    /\ table = get_data(source)
    /\ defaults = OpenFilters
    /\ filters = OpenFilters
    /\ filtered = Filtered(source, filters)
    /\ total_results = display_count(table, filtered)
    /\ cards = update(source.kind, filtered)
    /\ grid = data_table_update(filtered)
    /\ controls = [OpenControls EXCEPT !.Scatterchart_Showing_color = "airline_name"]
    /\ graphs \in Graphs(filtered, controls)
    /\ cycles = [c \in Cycles |-> Idle]
    /\ frames = [c \in Cycles |-> NoLocals]

\* The file gets one more flight, of an airline it has or of a new one.
AddFlight ==
    LET shape == ShapeOf(source)
    IN  \E k \in 1..(Len(shape) + 1) :
            LET more == IF k > Len(shape) THEN Append(shape, 1)
                        ELSE [shape EXCEPT ![k] = @ + 1]
            IN  /\ Shapely(more)
                /\ LoadFile(File("csv", FlightsOf(more)))

\* The user picks another colour column.
ChangeColour ==
    \E x \in ControlInputs.Scatterchart_Showing_color :
        /\ x # controls.Scatterchart_Showing_color
        /\ controls' = [controls EXCEPT !.Scatterchart_Showing_color = x]
        /\ graphs' \in Graphs(filtered, controls')
        /\ UNCHANGED <<source, table, defaults, filters, filtered,
                       total_results, cards, grid, cycles, frames, load_error>>

NextScatter ==
    \/ AddFlight
    \/ ChangeColour

SpecScatter == InitScatter /\ [][NextScatter]_vars

-----------------------------------------------------------------------------
(* The page on a file of more rows than the data table shows *)

\* A data file of n flights that differ in their distance: 1, 2, ... miles.
LargeFile(n) ==
    File("csv", [i \in 1..n |-> [SampleFile[2] EXCEPT !.distance = Val(i)]])

\* The page is laid out on a file of more than RowCap flights.
InitTable ==
    /\ source = LargeFile(RowCap + MaxBeyond)
    /\ load_error = get_data_error(source)
    /\ table = get_data(source)
    /\ defaults = DefaultFilters(table)
    /\ filters = defaults
    /\ filtered = filter_data(table, filters)
    /\ total_results = display_count(table, filtered)
    /\ cards = update(source.kind, filtered)
    /\ grid = data_table_update(filtered)
    /\ controls = DefaultControls(table)
    /\ graphs \in Graphs(filtered, controls)
    /\ cycles = [c \in Cycles |-> Idle]
    /\ frames = [c \in Cycles |-> NoLocals]

\* The user steps the maximum distance down by one mile.
LowerMaxDistance ==
    /\ filters["flight_distance_max"].n > RowCap - MaxBeyond
    /\ Recompute([filters EXCEPT !["flight_distance_max"] =
                      Num(filters["flight_distance_max"].n - 1)])

\* The user selects a year the file does not have, or "all" again.
PickYear ==
    \E sel \in {List(<<ALL>>), List(<<IntItem(2022)>>)} :
        Recompute([filters EXCEPT !["year"] = sel])

NextTable ==
    \/ LowerMaxDistance
    \/ PickYear

SpecTable == InitTable /\ [][NextTable]_vars

-----------------------------------------------------------------------------
(* Vocabulary of the properties *)

MultiKeySet == {MultiKeys[i] : i \in DOMAIN MultiKeys}

RangeKeySet == FilterKeys \ MultiKeySet

\* A multi-select value that is a list holding the sentinel.
HoldsAll(sel) == sel.k = "list" /\ Contains(sel.items, ALL)

\* The rows of a frame as a set.
RowSet(rows) == {rows[i] : i \in DOMAIN rows}

\* F with one multi-select dimension set to exactly ["all"].
Lifted(F, key) == [F EXCEPT ![key] = List(<<ALL>>)]

\* The one value of a multi-select list that holds exactly one value.
Only(sel) == sel.items[1]

IsSingle(sel) == sel.k = "list" /\ Len(sel.items) = 1 /\ sel.items[1] # ALL

\* The column each multi-select dimension is stated to restrict.
StatedColumn(key) ==
    CASE key = "year" -> "year"
      [] key = "airline" -> "airline_name"
      [] key = "destination_airport" -> "dest"
      [] key = "month" -> "month_name"
      [] key = "day_of_week" -> "day_of_week"
      [] key = "time_period" -> "time_period"
      [] key = "delay_category" -> "delay_category"

-----------------------------------------------------------------------------
(* C1 *)

\* C1: when every multi-select dimension holds "all" and the distance and
\* date bounds are the table's own minimum and maximum, filter_data returns
\* the input table row for row, also when rows miss a distance or a date.
C1_DefaultsReturnTheTable ==
    (/\ \A key \in MultiKeySet : HoldsAll(filters[key])
     /\ \A key \in RangeKeySet : filters[key] = defaults[key])
        => (filtered.ok /\ filtered.rows = table)

-----------------------------------------------------------------------------
(* C2 *)

\* C2: when one multi-select dimension is set to [v], v not "all", and the
\* other dimensions are unconstrained, every returned row has v in the
\* dimension's column, and every row of the table with v in that column that
\* passes the range bounds is returned.
C2_SingleValueSelectsItsRows ==
    \A key \in MultiKeySet :
        (/\ IsSingle(filters[key])
         /\ \A other \in MultiKeySet \ {key} : HoldsAll(filters[other])
         /\ filtered.ok)
            => LET v == Only(filters[key])
                   HasV(r) == Cell(r, StatedColumn(key)) = v
                   ranged == filter_data(table, Lifted(filters, key))
               IN  /\ \A i \in DOMAIN filtered.rows : HasV(filtered.rows[i])
                   /\ filtered.rows = SelectSeq(ranged.rows, HasV)

\* A single value was selected, a row with it was kept and a row without it,
\* which passes the range bounds, was dropped.
C2_Witness ==
    \E key \in MultiKeySet :
        /\ IsSingle(filters[key])
        /\ \A other \in MultiKeySet \ {key} : HoldsAll(filters[other])
        /\ filtered.ok
        /\ filtered.rows # <<>>
        /\ Len(filtered.rows) < Len(filter_data(table, Lifted(filters, key)).rows)

-----------------------------------------------------------------------------
(* C3 *)

\* C3: filtering the result of a successful filter_data call again with the
\* same filters returns that result unchanged.
C3_Idempotent ==
    filtered.ok => filter_data(filtered.rows, filters) = filtered

\* A call kept some rows and dropped others, so the second call has rows to
\* work on.
C3_Witness ==
    /\ filtered.ok
    /\ filtered.rows # <<>>
    /\ Len(filtered.rows) < Len(table)
    /\ Cardinality(Active(filters)) = MaxActive

-----------------------------------------------------------------------------
(* C4 *)

\* CodeOrder started at its place k + 1 and wrapped around.
Rotated(k) ==
    [p \in DOMAIN CodeOrder |-> CodeOrder[((p + k - 1) % Len(CodeOrder)) + 1]]

Reversed == [p \in DOMAIN CodeOrder |-> CodeOrder[Len(CodeOrder) + 1 - p]]

\* The orders compared with the code's: the reverse order, which runs every
\* pair of restrictions the other way round, and every rotation, which runs
\* every restriction first and last.
Reorderings == {Rotated(k) : k \in 1..(Len(CodeOrder) - 1)} \cup {Reversed}

\* C4: applying the restrictions of filter_data in another order succeeds or
\* fails as filter_data does and yields the same set of rows.
C4_OrderIndependent ==
    \A order \in Reorderings :
        LET other == ApplySteps(order, Frame(table), filters)
        IN  /\ other.ok = filtered.ok
            /\ RowSet(other.rows) = RowSet(filtered.rows)

\* Two restrictions each drop a row the other keeps, so the order in which
\* they run decides what each of them sees.
C4_Witness ==
    \E k1 \in MultiKeySet, k2 \in RangeKeySet :
        LET a == Step(k1, Frame(table), filters)
            b == Step(k2, Frame(table), filters)
        IN  /\ filtered.ok
            /\ RowSet(a.rows) \ RowSet(b.rows) # {}
            /\ RowSet(b.rows) \ RowSet(a.rows) # {}

-----------------------------------------------------------------------------
(* C5 *)

\* C5: with the multi-select dimensions unconstrained, a row is retained
\* exactly when min <= distance <= max (and it passes the date bounds that
\* are applied, if any); a row on a bound is retained.
C5_DistanceInclusive ==
    (/\ \A key \in MultiKeySet : HoldsAll(filters[key])
     /\ filtered.ok)
        => LET lo == CoerceFloat(filters["flight_distance_min"]).v
               hi == CoerceFloat(filters["flight_distance_max"]).v
               from == DateBound(filters["date_start"])
               to == DateBound(filters["date_end"])
               fromApplied == filters["date_start"] # Null /\ from.ok
               toApplied == filters["date_end"] # Null /\ to.ok
               Retained(r) ==
                   /\ ~r.distance.na /\ lo <= r.distance.v /\ r.distance.v <= hi
                   /\ fromApplied => (~r.date.na /\ ~from.nat /\ r.date.v >= from.d)
                   /\ toApplied => (~r.date.na /\ ~to.nat /\ r.date.v <= to.d)
           IN  filtered.rows = SelectSeq(table, Retained)

\* A row whose distance equals a bound the user typed was retained and a
\* row outside the bounds was dropped.
C5_Witness ==
    /\ \A key \in MultiKeySet : HoldsAll(filters[key])
    /\ filtered.ok
    /\ filters["flight_distance_min"] # defaults["flight_distance_min"]
    /\ \E i \in DOMAIN filtered.rows :
           filtered.rows[i].distance.v = CoerceFloat(filters["flight_distance_min"]).v
    /\ \E i \in DOMAIN table :
           /\ ~table[i].distance.na
           /\ table[i].distance.v < CoerceFloat(filters["flight_distance_min"]).v

-----------------------------------------------------------------------------
(* C6 *)

\* C6: a list that holds "all" next to other values leaves its dimension
\* unconstrained: the result is that of ["all"].
C6_AllWithOthersIsUnconstrained ==
    \A key \in MultiKeySet :
        (HoldsAll(filters[key]) /\ Len(filters[key].items) > 1)
            => filtered = filter_data(table, Lifted(filters, key))

\* "all" was selected next to a value and a row with another value in that
\* column was returned.
C6_Witness ==
    \E key \in MultiKeySet :
        /\ HoldsAll(filters[key]) /\ Len(filters[key].items) > 1
        /\ \E i \in DOMAIN filtered.rows :
               ~IsIn(Cell(filtered.rows[i], StatedColumn(key)), filters[key].items)

-----------------------------------------------------------------------------
(* C7 *)

\* C7: an empty list is equivalent to ["all"], whatever the other
\* dimensions hold.
C7_EmptyListIsAll ==
    \A key \in MultiKeySet :
        filters[key] = List(<<>>)
            => filtered = filter_data(table, Lifted(filters, key))

\* A dimension holds the empty list, another input is constrained, and rows
\* were returned.
C7_Witness ==
    \E key \in MultiKeySet :
        /\ filters[key] = List(<<>>)
        /\ Cardinality(Active(filters)) > 1
        /\ filtered.ok
        /\ filtered.rows # <<>>

-----------------------------------------------------------------------------
(* C8 *)

\* C8: a multi-select dimension whose key is absent, or whose value is None,
\* does not make filter_data fail and is treated as unconstrained.
C8_MissingValueIsUnconstrained ==
    \A key \in MultiKeySet :
        filters[key] \in {Absent, Null}
            => /\ filtered.ok
               /\ filtered = filter_data(table, Lifted(filters, key))

-----------------------------------------------------------------------------
(* C9 *)

\* C9: a year selected as text matches the integer year column: the rows
\* returned for ["2022"] are those returned for [2022], and on the table of
\* the 2022 and 2023 flights with the distance capped at 1000 that is the
\* 2022 flight alone, with an on-time rate of 100.0%.
C9_TextYearMatches ==
    filters["year"] = List(<<StrItem("2022")>>)
        => /\ filtered =
                  filter_data(table, [filters EXCEPT !["year"] = List(<<IntItem(2022)>>)])
           /\ (/\ source = File("csv", Slice(1, 2))
               /\ filters["airline"] = List(<<ALL>>)
               /\ CoerceFloat(filters["flight_distance_max"]).v = 1000
               /\ filtered.ok)
                  => /\ filtered.rows = <<table[1]>>
                     /\ cards.status = "ok"
                     /\ cards.on_time_rate = 1000

-----------------------------------------------------------------------------
(* C10 *)

\* C10: the month filter compares the month_name column by string equality
\* and never reads the numeric month: with ["Jan"], rows named "Jan" are
\* retained and a row of month 1 named "January" is excluded.
C10_MonthMatchesTheName ==
    (filters["month"] = List(<<StrItem("Jan")>>) /\ filtered.ok)
        => LET Named(r) == r.month_name = "Jan"
           IN  filtered.rows =
                   SelectSeq(filter_data(table, Lifted(filters, "month")).rows, Named)

\* The month filter is ["Jan"]; a row named "Jan" was retained and a row of
\* month 1 named "January", which passes every other restriction, was dropped.
C10_Witness ==
    /\ filters["month"] = List(<<StrItem("Jan")>>)
    /\ filtered.ok
    /\ \E i \in DOMAIN filtered.rows : filtered.rows[i].month = 1
    /\ \E i \in DOMAIN table :
           /\ table[i].month = 1
           /\ table[i].month_name = "January"
           /\ table[i] \in RowSet(filter_data(table, Lifted(filters, "month")).rows)
           /\ table[i] \notin RowSet(filtered.rows)

-----------------------------------------------------------------------------
(* C11 *)

\* s can be obtained from t by deleting rows of t.
RECURSIVE IsSubsequence(_, _)
IsSubsequence(s, t) ==
    IF s = <<>> THEN TRUE
    ELSE IF t = <<>> THEN FALSE
    ELSE IF Head(s) = Head(t) THEN IsSubsequence(Tail(s), Tail(t))
    ELSE IsSubsequence(s, Tail(t))

\* C11: the rows filter_data returns are a subsequence of the input rows:
\* retained rows keep their relative order and no row is duplicated or
\* invented.
C11_RowOrderPreserved ==
    /\ IsSubsequence(filtered.rows, table)
    /\ \A i, j \in DOMAIN filtered.rows : i # j => filtered.rows[i] # filtered.rows[j]

\* A constrained call retained two rows, whose order could have changed.
C11_Witness ==
    /\ filtered.ok
    /\ Len(filtered.rows) >= 2
    /\ Cardinality(Active(filters)) = MaxActive
    /\ filtered.rows[1].distance.v > filtered.rows[2].distance.v

-----------------------------------------------------------------------------
(* C12 *)

-----------------------------------------------------------------------------
(* C13 *)

\* The restrictions of filter_data other than the one that reads key, in the
\* code's order.
Without(key) ==
    LET Other(k) == k # key
    IN  SelectSeq(CodeOrder, Other)

WarningOf(key) ==
    IF key = "date_start" THEN "Could not parse start_date filter"
    ELSE "Could not parse end_date filter"

\* C13: a date bound that is null, or that neither parse attempt can read,
\* is skipped: the call succeeds or fails as the other restrictions alone
\* do and returns their rows, with a warning logged for the unparseable
\* bound; a parseable bound keeps of those rows exactly the ones with
\* date >= start (date <= end), the bound's own day included.
C13_DateBoundSkippedOrInclusive ==
    \A key \in {"date_start", "date_end"} :
        LET x == filters[key]
            b == DateBound(x)
            rest == ApplySteps(Without(key), Frame(table), filters)
            Within(r) ==
                /\ ~r.date.na
                /\ IF key = "date_start" THEN r.date.v >= b.d ELSE r.date.v <= b.d
            logged == Contains(filtered.warnings, WarningOf(key))
        IN  /\ (x.k = "null" \/ (x.k = "text" /\ ~b.ok))
                => /\ filtered.ok = rest.ok
                   /\ filtered.rows = rest.rows
                   /\ logged = (filtered.ok /\ x.k = "text")
            /\ (x.k = "text" /\ b.ok /\ ~b.nat)
                => /\ filtered.ok = rest.ok
                   /\ filtered.rows = SelectSeq(rest.rows, Within)
                   /\ ~logged

\* The start bound is text that is no date; the call returned rows, dropped
\* a row on account of another input and logged the warning.
C13_Witness ==
    /\ filters["date_start"].k = "text"
    /\ ~DateBound(filters["date_start"]).ok
    /\ filtered.ok
    /\ filtered.rows # <<>>
    /\ Len(filtered.rows) < Len(table)
    /\ Contains(filtered.warnings, WarningOf("date_start"))

-----------------------------------------------------------------------------
(* C14 *)

\* The number a text writes in decimal digits.
NumberWritten(x) == Num(DigitsValue(x.s, 1, Len(x.s)))

\* Other string forms of a number, each with the number it writes.
WrittenNumbers ==
    { <<Text(<<"5", "0", "0">>), Num(500)>>,
      <<Text(<<" ", "1", "0", "0", "0", " ">>), Num(1000)>>,
      <<Text(<<"1", "5", "0", "0", ".", "0">>), Num(1500)>>,
      <<Text(<<"+", "1", "0", "0", "0">>), Num(1000)>>,
      <<Text(<<"-", "1">>), Num(0 - 1)>> }

\* C14: a distance bound supplied as the string form of a number n gives
\* the result of the bound supplied as the number n: for the bound the page
\* holds, and at page load for each of the other string forms.
C14_TextBoundIsCoerced ==
    \A key \in {"flight_distance_min", "flight_distance_max"} :
        /\ (filters[key].k = "text" /\ AllDigits(filters[key].s))
               => filtered = filter_data(table, [filters EXCEPT ![key] = NumberWritten(filters[key])])
        /\ filters = defaults
               => \A w \in WrittenNumbers :
                      filter_data(table, [filters EXCEPT ![key] = w[1]])
                          = filter_data(table, [filters EXCEPT ![key] = w[2]])

\* The upper bound was typed as text; a row on the bound was retained and a
\* row above it dropped.
C14_Witness ==
    /\ filters["flight_distance_max"].k = "text"
    /\ AllDigits(filters["flight_distance_max"].s)
    /\ filtered.ok
    /\ \E i \in DOMAIN filtered.rows :
           Num(filtered.rows[i].distance.v) = NumberWritten(filters["flight_distance_max"])
    /\ \E i \in DOMAIN table :
           /\ ~table[i].distance.na
           /\ Num(table[i].distance.v) \notin
                  {Num(filtered.rows[j].distance.v) : j \in DOMAIN filtered.rows}

-----------------------------------------------------------------------------
(* C15 *)

\* A distance bound float() cannot take: None or a text that is no number.
Uncoercible(x) == x.k \in {"null", "text"} /\ ~CoerceFloat(x).ok

\* C15: a distance bound that cannot be coerced to a number (a non-numeric
\* string, the empty string, None) makes filter_data raise; no table is
\* returned, the exception reaches the caller (display_count raises) and no
\* warning-and-skip happens.
C15_UncoercibleDistanceRaises ==
    \A key \in {"flight_distance_min", "flight_distance_max"} :
        /\ Uncoercible(filters[key])
               => /\ ~filtered.ok
                  /\ filtered.err \in {"ValueError", "TypeError"}
                  /\ filtered.rows = <<>>
                  /\ filtered.warnings = <<>>
                  /\ total_results.raised
        /\ filters = defaults
               => LET empty == filter_data(table, [filters EXCEPT ![key] = Text(<<>>)])
                  IN  ~empty.ok /\ empty.err = "ValueError" /\ empty.rows = <<>>

\* The lower bound is a text that is no number, the table has rows, and the
\* call raised into display_count.
C15_Witness ==
    /\ filters["flight_distance_min"].k = "text"
    /\ Uncoercible(filters["flight_distance_min"])
    /\ table # <<>>
    /\ ~filtered.ok
    /\ total_results.raised

-----------------------------------------------------------------------------
(* C16 *)

\* C16: when filter_data yields a zero-row table, the data cards show
\* "No Data", the data table returns no columns and no rows with "No data
\* available after filtering", each of the six charts returns the "No data
\* available" figure, and none of them reports an error.
C16_EmptyResultIsNoData ==
    (filtered.ok /\ filtered.rows = <<>>)
        => /\ cards.status = "No Data"
           /\ grid = [columnDefs |-> "none", rowData |-> <<>>,
                      title |-> "No data available after filtering"]
           /\ \A chart \in Charts :
                  /\ graphs[chart].figure = "No data available"
                  /\ graphs[chart].error = ""

\* A dropdown value that no row of a non-empty table carries was selected and
\* the call returned zero rows.
C16_Witness ==
    /\ table # <<>>
    /\ \E key \in MultiKeySet : IsSingle(filters[key])
    /\ filtered.ok
    /\ filtered.rows = <<>>

-----------------------------------------------------------------------------
(* C17 *)

\* C17: when filter_data raises, every callback that consumes the filter
\* inputs turns the failure into its own error output and none lets it
\* out: the data cards show "Error", the data table and the charts carry
\* their error text, and the row-count display does not raise.
C17_ErrorsStayLocal ==
    ~filtered.ok
        => /\ cards.status = "Error"
           /\ grid.title = "Error loading data"
           /\ \A chart \in Charts : graphs[chart].figure = "Error in chart"
           /\ ~total_results.raised

-----------------------------------------------------------------------------
(* C18 *)

\* Each boolean column get_data adds, with the flag column it is derived from.
FlagOf ==
    [dep_delay_flag_bool |-> "dep_delay_flag",
     arr_delay_flag_bool |-> "arr_delay_flag",
     on_time_bool |-> "on_time"]

\* In row r every boolean column is true exactly when its flag is 1.
FlagsConsistent(r) ==
    \A col \in DOMAIN FlagOf : (r[col] = PyTrue) <=> (r[FlagOf[col]] = Val(1))

\* C18: in every table get_data returns, each derived boolean is true exactly
\* when its flag equals 1, and the same holds in the tables filter_data
\* returns for it (with every dimension open, and with one year selected).
C18_BoolColumnsFollowFlags ==
    /\ \A i \in DOMAIN table : FlagsConsistent(table[i])
    /\ \A i \in DOMAIN filtered.rows : FlagsConsistent(filtered.rows[i])
    /\ LET one == filter_data(table, [filters EXCEPT !["year"] = List(<<IntItem(2022)>>)])
       IN  \A i \in DOMAIN one.rows : FlagsConsistent(one.rows[i])

\* The loaded table holds a flag of 1, a missing flag and a flag that is
\* neither 0 nor 1, and filter_data returned the row with the odd flag.
C18_Witness ==
    /\ \E i \in DOMAIN table : table[i].on_time = Val(1)
    /\ \E i \in DOMAIN table : table[i].on_time.na
    /\ \E i \in DOMAIN filtered.rows : filtered.rows[i].dep_delay_flag = Val(2)

-----------------------------------------------------------------------------
(* C19 *)

\* C19: a present flag is taken for its truth value: the derived boolean is
\* true when the flag is nonzero (2 and -1 included) and false when it is 0.
C19_NonzeroFlagIsTrue ==
    \A i \in DOMAIN table : \A col \in DOMAIN FlagOf :
        ~table[i][FlagOf[col]].na
            => ((table[i][col] = PyTrue) <=> (table[i][FlagOf[col]].v # 0))

-----------------------------------------------------------------------------
(* C20 *)

\* The columns of the file, those get_data adds excluded.
SourceColumns ==
    {"distance", "date", "on_time", "dep_delay_flag", "arr_delay_flag",
     "dep_delay", "arr_delay"}

\* The record has no value in any column of the file.
EmptyInSource(r) ==
    /\ r.missing = CategoricalColumns
    /\ \A col \in SourceColumns : r[col].na

\* C20: whatever the kind of file, the table get_data returns holds, in
\* file order, exactly the records that have a value in at least one column
\* of the file.
C20_EmptyRowsDropped ==
    LET Filled(r) == ~EmptyInSource(r)
        filled == SelectSeq(source.records, Filled)
    IN  load_error = "" =>
            /\ Len(table) = Len(filled)
            /\ \A i \in DOMAIN table : \A col \in DOMAIN filled[i] \ {"date"} :
                   table[i][col] = filled[i][col]

-----------------------------------------------------------------------------
(* C21: the dates of a loaded table *)

\* C21: the date conversion at load is all-or-nothing: when the date text of
\* some record is no YYYY-MM-DD day, get_data fails and returns no table, and
\* so every row of every table get_data returns has a calendar date.
C21_EveryRowHasADate ==
    /\ (\E i \in DOMAIN source.records :
            /\ ~source.records[i].date.na
            /\ ~DateCell(source.records[i].date).ok)
           => (load_error # "" /\ table = <<>>)
    /\ load_error = "" => \A i \in DOMAIN table : ~table[i].date.na

-----------------------------------------------------------------------------
(* C22: the extension of the data path *)

\* C22: a path whose extension is neither that of a delimited text file nor
\* ".parquet" is not parsed: get_data fails with an unsupported-format error.
C22_OtherExtensionRefused ==
    source.kind = "dat" =>
        (load_error = "UnsupportedFormatError" /\ table = <<>>)

-----------------------------------------------------------------------------
(* C23: missing metric values *)

\* The rows of df that have a value in the column.
WithValue(df, col) ==
    LET Has(r) == ~r[col].na
    IN  SelectSeq(df, Has)

\* The mean of the column over the rows that have a value in it, in units of
\* 1/scale; there is none when no row has a value.
MeanOfPresent(df, col, scale) ==
    LET present == WithValue(df, col)
    IN  IF present = <<>> THEN NA
        ELSE Val(RoundDiv(ColSum(present, col) * scale, Len(present)))

\* C23: for a non-empty filtered table the cards do not fail, whatever values
\* are missing, and each aggregate equals the aggregate over the rows in
\* which its metric is present: the cards' on-time rate, average and max
\* arrival delay and average distance, the weekday chart's average delay and
\* the monthly chart's average delay and on-time percentage.
C23_MissingValuesExcluded ==
    (filtered.ok /\ filtered.rows # <<>>) =>
        LET df == filtered.rows
            weekday == graphs["delay_by_weekday_bar_chart"]
            monthly == graphs["monthly_flight_trends_line_chart"]
            delay_type == controls.delay_by_weekday_bar_chart_delay_type
        IN  /\ cards.status = "ok"
            /\ WithValue(df, "on_time") # <<>> =>
                   Val(cards.on_time_rate) = MeanOfPresent(df, "on_time", 1000)
            /\ cards.avg_delay = MeanOfPresent(df, "arr_delay", 10)
            /\ cards.avg_distance = MeanOfPresent(df, "distance", 1)
            /\ WithValue(df, "arr_delay") # <<>> =>
                   cards.max_delay = Val(ColMax(WithValue(df, "arr_delay"), "arr_delay"))
            /\ weekday.figure = "chart" =>
                   \A g \in weekday.data :
                       g.avg_delay =
                           MeanOfPresent(RowsOf(df, "day_of_week", g.day_of_week),
                                         delay_type, 10)
            /\ monthly.figure = "chart" =>
                   \A g \in monthly.data :
                       LET Month(r) == /\ "year" \notin r.missing
                                       /\ r.year = g.year_month[1]
                                       /\ r.month = g.year_month[2]
                           rows == SelectSeq(df, Month)
                       IN  /\ g.avg_dep_delay = MeanOfPresent(rows, "dep_delay", 10)
                           /\ g.on_time_pct = MeanOfPresent(rows, "on_time", 1000)

-----------------------------------------------------------------------------
(* C24: the colour groups of the scatter chart *)

\* The rows the scatter chart plots, and the number of them that hold the
\* value v in the colour column.
Plotted == ScatterRows(filtered.rows)

FlightsWith(v) == Len(RowsOf(Plotted, controls.Scatterchart_Showing_color, v))

ColourValues == Values(Plotted, controls.Scatterchart_Showing_color)

\* Fewer than nine other values have at least as many rows as v: v is among
\* the nine most frequent values however equal counts are ordered.
SurelyTop(v) ==
    Cardinality({w \in ColourValues \ {v} : FlightsWith(w) >= FlightsWith(v)}) < 9

\* At least nine other values have more rows than v.
SurelyRest(v) ==
    Cardinality({w \in ColourValues \ {v} : FlightsWith(w) > FlightsWith(v)}) >= 9

\* The values that are drawn as a group of their own, and the rows of the
\* other values.
OwnGroups == {x.colour : x \in graphs["Scatterchart_Showing"].data} \ {"Other"}

RestRows ==
    LET col == controls.Scatterchart_Showing_color
        Rest(r) == col \in r.missing \/ r[col] \notin OwnGroups
    IN  SelectSeq(Plotted, Rest)

\* The groups are drawn from all the plotted rows: a value's group holds all
\* of its rows, and "Other" holds the rows of every value without a group.
GroupsAreWhole ==
    LET data == graphs["Scatterchart_Showing"].data
    IN  /\ \A x \in data : x.colour # "Other" => x.flights = FlightsWith(x.colour)
        /\ RestRows # <<>> => [colour |-> "Other", flights |-> Len(RestRows)] \in data
        /\ RestRows = <<>> => \A x \in data : x.colour # "Other"

\* C24 as stated: for every filtered table and every colour column, at most
\* 10 colour groups are drawn, each of the 9 most frequent values keeps its
\* own group, and the rows of every less frequent value are drawn under
\* "Other".
C24_TopNineAndOther ==
    (/\ graphs["Scatterchart_Showing"].figure = "chart"
     /\ controls.Scatterchart_Showing_color # "none") =>
        /\ Cardinality(graphs["Scatterchart_Showing"].data) <= 10
        /\ GroupsAreWhole
        /\ \A v \in ColourValues : SurelyTop(v) => v \in OwnGroups
        /\ \A v \in ColourValues : SurelyRest(v) => v \notin OwnGroups

\* C24, amended: at most 10 colour groups are drawn; when the colour column
\* has more than 10 values, nine of the most frequent values keep their own
\* group and the rows of every other value are drawn under "Other"; when it
\* has at most 10 values, every value keeps its own group.
C24_TopNineOfMoreThanTen ==
    (/\ graphs["Scatterchart_Showing"].figure = "chart"
     /\ controls.Scatterchart_Showing_color # "none") =>
        /\ Cardinality(graphs["Scatterchart_Showing"].data) <= 10
        /\ GroupsAreWhole
        /\ \A v \in ColourValues : SurelyTop(v) => v \in OwnGroups
        /\ IF Cardinality(ColourValues) > 10
           THEN /\ Cardinality(OwnGroups) = 9
                /\ \A v \in ColourValues : SurelyRest(v) => v \notin OwnGroups
           ELSE OwnGroups = ColourValues

\* The scatter chart is coloured by airline on a table of 11 airlines, two of
\* which have fewer flights than the nine others, and their rows are drawn
\* under "Other".
C24_Witness ==
    /\ graphs["Scatterchart_Showing"].figure = "chart"
    /\ controls.Scatterchart_Showing_color = "airline_name"
    /\ Cardinality(ColourValues) = 11
    /\ Cardinality({v \in ColourValues : SurelyRest(v)}) = 2
    /\ [colour |-> "Other", flights |-> 2] \in graphs["Scatterchart_Showing"].data

-----------------------------------------------------------------------------
(* C25: invocations that run at the same time *)

\* What a callback returns for a filter set when its invocation is the only
\* one running.
Alone(cb, F) ==
    LET alone == Filtered(source, F)
    IN  CASE cb = "data_cards" -> {update(source.kind, alone)}
          [] cb = "data_table" -> {data_table_update(alone)}
          [] cb = "display_count" -> {display_count(get_data(source), alone)}
          [] OTHER -> {chart_update(cb, alone, controls, top)
                          : top \in ScatterTops(alone, controls)}

\* C25: whatever callbacks run at the same time, with whatever filter sets
\* and however their steps interleave, the canonical table stays what
\* get_data reads from the file, the frame an invocation has filtered is the
\* one filter_data gives for its own filter set, and what an invocation
\* returns is what it returns when it runs alone.
C25_CyclesShareNothing ==
    /\ table = get_data(source)
    /\ \A c \in Cycles :
           /\ cycles[c].pc = "filtered" =>
                  LET mine == frames[c]
                      result == IF cycles[c].callback = "display_count"
                                THEN mine.filtered_df ELSE mine.df
                  IN  result = Filtered(source, cycles[c].kwargs)
           /\ cycles[c].pc = "done" =>
                  cycles[c].out \in Alone(cycles[c].callback, cycles[c].kwargs)

\* The scatter chart has returned its figure while another invocation, called
\* with another filter set, has filtered its frame and not yet returned.
C25_Witness ==
    \E c \in Cycles : \E d \in Cycles \ {c} :
        /\ cycles[c].pc = "done"
        /\ cycles[c].callback = "Scatterchart_Showing"
        /\ cycles[c].out.figure = "chart"
        /\ cycles[d].pc = "filtered"
        /\ cycles[d].kwargs # cycles[c].kwargs
        /\ Len(frames[d].df.rows) < Len(table)

-----------------------------------------------------------------------------
(* C26: a chart's own selection leaves no row *)

\* The chart returned the fallback figure "No data available", drew nothing
\* and did not go through its except clause.
Placeholder(chart) ==
    /\ graphs[chart].figure = "No data available"
    /\ graphs[chart].rows = 0
    /\ graphs[chart].data = {}
    /\ graphs[chart].error # "Error updating chart"

\* C26: when filter_data returned rows but a chart's own selection leaves
\* none (the delay categories of the airline chart, the delayed-only filter
\* and the removal of missing delays of the weekday chart, the time periods
\* and the delay range of the box plot, the removal of missing delays of the
\* scatter chart, the airline and time period of the map, the year range of
\* the monthly chart), the chart returns the "No data available" figure
\* without aggregating and without taking its error path.
C26_LateEmptyIsNoData ==
    (filtered.ok /\ filtered.rows # <<>>) =>
        LET df == filtered.rows
            cats == controls.airline_performance_horizontal_bar_delay_filter
            InCats(r) == "delay_category" \notin r.missing /\ r.delay_category \in cats
            delay_type == controls.delay_by_weekday_bar_chart_delay_type
            Late(r) == ~r[delay_type].na /\ r[delay_type].v > 0
            HasDelay(r) == ~r[delay_type].na
            periods == controls.delay_distribution_box_plot_time_periods
            range == controls.delay_distribution_box_plot_delay_range
            InPeriod(r) == "time_period" \notin r.missing /\ r.time_period \in periods
            InPeriodAndRange(r) ==
                /\ InPeriod(r)
                /\ ~r.arr_delay.na
                /\ r.arr_delay.v >= range[1] /\ r.arr_delay.v <= range[2]
            BothDelays(r) == ~r.dep_delay.na /\ ~r.arr_delay.na
            airline == controls.flight_connections_map_airline
            period == controls.flight_connections_map_time_period
            OnMap(r) ==
                /\ airline # "all" =>
                       ("airline_name" \notin r.missing /\ r.airline_name = airline)
                /\ period # "all" =>
                       ("time_period" \notin r.missing /\ r.time_period = period)
            years == controls.monthly_flight_trends_line_chart_year_range
            InYears(r) == /\ "year" \notin r.missing
                          /\ r.year >= years[1] /\ r.year <= years[2]
        IN  /\ (cats # {} /\ (\A i \in DOMAIN df : ~InCats(df[i])))
                   => Placeholder("airline_performance_horizontal_bar")
            /\ ("enabled" \in controls.delay_by_weekday_bar_chart_delayed_only
                    /\ (\A i \in DOMAIN df : ~Late(df[i])))
                   => Placeholder("delay_by_weekday_bar_chart")
            /\ (\A i \in DOMAIN df : ~HasDelay(df[i])) => Placeholder("delay_by_weekday_bar_chart")
            /\ (\A i \in DOMAIN df : ~InPeriod(df[i])) => Placeholder("delay_distribution_box_plot")
            /\ (\A i \in DOMAIN df : ~InPeriodAndRange(df[i])) => Placeholder("delay_distribution_box_plot")
            /\ (\A i \in DOMAIN df : ~BothDelays(df[i])) => Placeholder("Scatterchart_Showing")
            /\ (\A i \in DOMAIN df : ~OnMap(df[i])) => Placeholder("flight_connections_map")
            /\ (\A i \in DOMAIN df : ~InYears(df[i])) => Placeholder("monthly_flight_trends_line_chart")

\* filter_data returned a row, and five charts each lost it to their own
\* selection: the airline chart to the delay categories, the weekday and the
\* scatter chart to the missing departure delay, the box plot to the delay
\* range and the map to the airline.
C26_Witness ==
    /\ filtered.ok /\ filtered.rows # <<>>
    /\ graphs["airline_performance_horizontal_bar"].error =
           "No data available for selected delay categories"
    /\ graphs["delay_by_weekday_bar_chart"].error = "No valid delay data found"
    /\ graphs["Scatterchart_Showing"].error =
           "No valid delay data available after filtering"
    /\ graphs["delay_distribution_box_plot"].error = "No data available for delay range"
    /\ graphs["flight_connections_map"].error = "No flights found for the selected filters"
    /\ \A chart \in Charts \ {"monthly_flight_trends_line_chart"} : Placeholder(chart)

-----------------------------------------------------------------------------
(* C27 *)

\* The title the data table is said to show over a frame of n rows.
StatedTitle(n) ==
    IF n > 10000
    THEN "Showing 10,000 of " \o Commas(n) \o " rows (limited for performance)"
    ELSE "Showing " \o Commas(n) \o " rows"

\* C27 as stated: for every filtered table of N rows, rowData holds the first
\* min(N, 10000) rows of it in order, and the title reads "Showing 10,000 of
\* N rows (limited for performance)" exactly when N > 10000 and "Showing N
\* rows" otherwise.
C27_AtMostTenThousandRows ==
    filtered.ok =>
        LET N == Len(filtered.rows)
        IN  /\ Len(grid.rowData) = (IF N < 10000 THEN N ELSE 10000)
            /\ \A i \in DOMAIN grid.rowData : grid.rowData[i] = filtered.rows[i]
            /\ grid.title = StatedTitle(N)

\* C27, amended: the same for every filtered table of at least one row; for
\* a table of no rows the title is "No data available after filtering".
C27_AtMostTenThousandOfSome ==
    (filtered.ok /\ filtered.rows # <<>>) =>
        LET N == Len(filtered.rows)
        IN  /\ Len(grid.rowData) = (IF N < 10000 THEN N ELSE 10000)
            /\ \A i \in DOMAIN grid.rowData : grid.rowData[i] = filtered.rows[i]
            /\ grid.title = StatedTitle(N)

\* filter_data returned more than 10,000 rows and the grid got 10,000.
C27_Witness ==
    /\ filtered.ok
    /\ Len(filtered.rows) > 10000
    /\ Len(grid.rowData) = 10000
    /\ grid.title = "Showing 10,000 of 10,001 rows (limited for performance)"

-----------------------------------------------------------------------------
(* C28 *)

\* The rows of df as the flights of one airline in one month.
AsOneGroup(df) ==
    [i \in DOMAIN df |->
        [df[i] EXCEPT !.airline_name = "A", !.year = 2022, !.month = 1,
                      !.missing = @ \ {"airline_name", "year", "month"}]]

\* C28: for every non-empty filtered table, rows with a missing on_time
\* included, the on-time percentage on the data cards equals, to one
\* decimal, the percentage the airline chart computes over the same rows
\* taken as a single group and the percentage the monthly chart computes
\* over them.
C28_OnTimeRateConsistent ==
    (filtered.ok /\ filtered.rows # <<>> /\ cards.status = "ok") =>
        LET one == AsOneGroup(filtered.rows)
        IN  /\ \A g \in AirlineStats(one) : g.on_time_pct = Val(cards.on_time_rate)
            /\ \A g \in MonthlyData(one) : g.on_time_pct = Val(cards.on_time_rate)

-----------------------------------------------------------------------------
(* C29 *)

\* The date bound under the key is applied: it is given and one of the two
\* parse attempts succeeds.
Applied(key) == filters[key].k \notin {"null", "absent"} /\ DateBound(filters[key]).ok

\* C29: no row of a filter_data result has a missing distance, whatever the
\* distance bounds are, and none has a missing date when a date bound is
\* applied.
C29_MissingRangeValuesExcluded ==
    filtered.ok =>
        /\ \A i \in DOMAIN filtered.rows : ~filtered.rows[i].distance.na
        /\ (Applied("date_start") \/ Applied("date_end")) =>
               \A i \in DOMAIN filtered.rows : ~filtered.rows[i].date.na

\* Every filter is at its page-load default, the table has a row with no
\* distance or no date, and display_count shows fewer rows than the total.
C29_Witness ==
    /\ filters = defaults
    /\ \E i \in DOMAIN table : table[i].distance.na \/ table[i].date.na
    /\ ~total_results.raised
    /\ total_results.filtered_count < total_results.count

-----------------------------------------------------------------------------
(* C30 *)

\* The rows filter_data returns for the table and the filter set G.
ResultOf(G) == RowSet(filter_data(table, G).rows)

\* The values a list of the key can be extended by.
Additions(key) == {OptionsOf(key)[i] : i \in DOMAIN OptionsOf(key)} \cup {ALL}

\* No value added to the list under the key removes a row of the result.
AddingKeepsRows(key) ==
    \A o \in Additions(key) :
        RowSet(filtered.rows)
            \subseteq ResultOf([filters EXCEPT ![key] = List(Append(filters[key].items, o))])

\* Distance bounds and date bounds the current ones are compared with.
DistanceProbes == {0, 500, 1000, 1500, 2000}
DateProbes ==
    {DateText(2021, 12, 31), DateText(2022, 1, 1), DateText(2022, 1, 31),
     DateText(2023, 2, 15), DateText(2023, 12, 31)}

\* The day a date bound stands for, when the bound is applied as a day.
IsDay(x) == x.k \notin {"null", "absent"} /\ DateBound(x).ok /\ ~DateBound(x).nat

\* (ii) a wider distance or date range keeps every row of the result, a
\* narrower one adds none; a date bound set to None is wider than any day.
RangesMonotone ==
    LET R == RowSet(filtered.rows)
        lo == CoerceFloat(filters["flight_distance_min"]).v
        hi == CoerceFloat(filters["flight_distance_max"]).v
    IN  /\ \A x \in DistanceProbes :
               LET S == ResultOf([filters EXCEPT !["flight_distance_min"] = Num(x)])
               IN  (x <= lo => R \subseteq S) /\ (x >= lo => S \subseteq R)
        /\ \A x \in DistanceProbes :
               LET S == ResultOf([filters EXCEPT !["flight_distance_max"] = Num(x)])
               IN  (x >= hi => R \subseteq S) /\ (x <= hi => S \subseteq R)
        /\ \A key \in {"date_start", "date_end"} :
               /\ R \subseteq ResultOf([filters EXCEPT ![key] = Null])
               /\ \A t \in DateProbes :
                      LET S == ResultOf([filters EXCEPT ![key] = Text(t)])
                          d == DateBound(Text(t)).d
                          b == DateBound(filters[key]).d
                          wider == IF key = "date_start" THEN d <= b ELSE d >= b
                          narrower == IF key = "date_start" THEN d >= b ELSE d <= b
                      IN  /\ filters[key] = Null => S \subseteq R
                          /\ (IsDay(filters[key]) /\ wider) => R \subseteq S
                          /\ (IsDay(filters[key]) /\ narrower) => S \subseteq R

\* (iii) the result is a subset of the result for the filter set with every
\* list at "all" and the same range bounds.
WithinUnconstrained ==
    RowSet(filtered.rows)
        \subseteq ResultOf([key \in FilterKeys |->
                               IF key \in MultiKeySet THEN List(<<ALL>>) ELSE filters[key]])

\* A reversed range gives an empty table and not an error: the call raises
\* only if it also raises with the range closed to one point.
ReversedIsEmpty ==
    LET lo == CoerceFloat(filters["flight_distance_min"])
        hi == CoerceFloat(filters["flight_distance_max"])
        start == filters["date_start"]
        end == filters["date_end"]
    IN  /\ (lo.ok /\ hi.ok /\ lo.v > hi.v
                /\ filter_data(table, [filters EXCEPT !["flight_distance_min"] =
                                           filters["flight_distance_max"]]).ok)
               => (filtered.ok /\ filtered.rows = <<>>)
        /\ (IsDay(start) /\ IsDay(end) /\ DateBound(start).d > DateBound(end).d
                /\ filter_data(table, [filters EXCEPT !["date_start"] = end]).ok)
               => (filtered.ok /\ filtered.rows = <<>>)

\* C30 as stated: (i) adding values to a multi-select list that does not
\* contain "all" never removes a row from the result, (ii) widening a range
\* never removes a row and narrowing it never adds one, (iii) the result is
\* a subset of the unconstrained result with the same range bounds, and a
\* reversed range yields an empty table rather than an error.
C30_FilteringIsMonotone ==
    /\ filtered.ok =>
           /\ \A key \in MultiKeySet :
                  ~Contains(filters[key].items, ALL) => AddingKeepsRows(key)
           /\ RangesMonotone
           /\ WithinUnconstrained
    /\ ReversedIsEmpty

\* C30, amended: the same, with (i) for a list that holds at least one value
\* and not "all"; an empty list selects every row, so a value added to it
\* can remove rows.
C30_FilteringIsMonotoneFromSome ==
    /\ filtered.ok =>
           /\ \A key \in MultiKeySet :
                  (filters[key].items # <<>> /\ ~Contains(filters[key].items, ALL))
                      => AddingKeepsRows(key)
           /\ RangesMonotone
           /\ WithinUnconstrained
    /\ ReversedIsEmpty

\* One year is selected, some flight of the table is of that year and some
\* is not; adding the other year to the list brings rows in.
C30_Witness ==
    /\ filtered.ok /\ filtered.rows # <<>>
    /\ IsSingle(filters["year"])
    /\ \E o \in Additions("year") :
           ResultOf([filters EXCEPT !["year"] = List(Append(filters["year"].items, o))])
               # RowSet(filtered.rows)

====
